---- MODULE Spec2Model ----
(***************************************************************************)
(* A model of vmill's guest address space (vmill/Program/AddressSpace.cpp). *)
(*                                                                         *)
(* Addresses are naturals below AddrSpaceSize; the address space is that   *)
(* of a 32-bit guest (addr_mask is below the range of the uint64_t         *)
(* arithmetic, so no sum of the model wraps).  Pages are kPageSize bytes.  *)
(* Mapped ranges are heap objects named by their index in `heap`: the      *)
(* std::shared_ptr<MappedRange> of the source is such an index, and two    *)
(* address spaces that hold the same index share the object.               *)
(***************************************************************************)
EXTENDS Integers, Sequences, FiniteSets, TLC

(***************************************************************************)
(* Bounds of the model.                                                    *)
(***************************************************************************)
\* Bytes in a page (4096 in the source, scaled down).
kPageSize == 2
\* Pages in the guest address space.
NumPages == 4
\* Most mapped-range objects alive at once (besides the invalid sentinel).
MaxRanges == 5
\* Address spaces: the first one and its clones.
NumSpaces == 2
\* Entries of a direct-mapped range cache (64 in the source, scaled down).
kRangeCacheSize == 2
\* Code-version tokens handed out by InvalidateCodeVersion.
MaxToken == 2
\* Calls in a run that changes maps and permissions.
MaxCalls == 3
\* Calls in a run that writes to executable pages.
MaxSMCCalls == 5
\* Calls in a run that clones an address space.
MaxCloneCalls == 5
\* Calls in a run that reads and writes memory.
MaxAccessCalls == 3
\* Calls in a run that marks trace heads and changes maps and memory.
MaxHeadsCalls == 4
\* Tasks of the runtime.
NumTasks == 2
\* Addresses the allocators of register states and of coroutines hand out.
MaxObjects == 3
\* Calls in a run that sets tasks up and tears them down.
MaxTaskCalls == 3

(***************************************************************************)
(* Constants of the program.                                               *)
(***************************************************************************)
\* The heap index of the `invalid` sentinel range.
kInvalid == 0
\* A null MappedRange pointer in a range cache.
kNull == -1
\* The initial_program_break of an address space that no constructor and no
\* AddMap has assigned yet.
kNoBreak == -2

AddrSpaceSize == NumPages * kPageSize
addr_mask == AddrSpaceSize - 1
Addrs == 0..addr_mask
PageAddrs == {p * kPageSize : p \in 0..(NumPages - 1)}
Spaces == 1..NumSpaces

Min(a, b) == IF a < b THEN a ELSE b
Max(a, b) == IF a > b THEN a ELSE b

AlignDownToPage(addr) == addr - (addr % kPageSize)
RoundUpToPage(size) == ((size + (kPageSize - 1)) \div kPageSize) * kPageSize

SeqRange(seq) == {seq[i] : i \in 1..Len(seq)}

VARIABLES
  heap,           \* mapped-range objects, by index; heap[kInvalid] is `invalid`
  spaces,         \* the AddressSpace objects, by number
  next_token,     \* the next fresh code-version token
  version_code,   \* FLAGS_version_code
  ret,            \* what the last call returned to its caller
  calls,          \* calls made so far
  executor,       \* the Executor: its tasks, its live traces and how far
                  \* Run has got
  decoder,        \* the locals of a DecodeTraces that is under way
  runtime         \* the tasks of the runtime, their register states and
                  \* their coroutines

vars ==
  <<heap, spaces, next_token, version_code, ret, calls, executor, decoder,
    runtime>>

(***************************************************************************)
(* MappedRange.  Its implementation is not among the sources; it is        *)
(* modelled from the specification of the mapped range.                    *)
(***************************************************************************)
\* MappedRange::Create: an anonymous range of zero bytes, with a host buffer.
\* `lazy` tells that the range has no host buffer yet (anonymous-zero before
\* its first touch): its bytes read as zero but it yields no pointer.
Create(base, limit) ==
  [base |-> base, limit |-> limit, valid |-> TRUE, version |-> 0,
   lazy |-> FALSE, data |-> [a \in base..(limit - 1) |-> 0]]

\* MappedRange::Create for an anonymous-zero range, untouched.
CreateZero(base, limit) == [Create(base, limit) EXCEPT !.lazy = TRUE]

\* MappedRange::CreateInvalid: a tombstone.
CreateInvalid(base, limit) ==
  [base |-> base, limit |-> limit, valid |-> FALSE, version |-> 0,
   lazy |-> FALSE, data |-> [a \in {} |-> 0]]

IsValid(range) == range.valid
BaseAddress(range) == range.base
LimitAddress(range) == range.limit
Contains(range, addr) == range.base <= addr /\ addr < range.limit

\* read(addr): succeeds iff base <= addr < limit and the range is no tombstone.
CanAccess(range, addr) == range.valid /\ Contains(range, addr)
ReadByte(range, addr) == range.data[addr]
\* write(addr, byte): the first write gives a lazy range its buffer.
WriteByte(range, addr, val) ==
  [range EXCEPT !.data[addr] = val, !.lazy = FALSE]

\* copy(new_base, new_limit): the sub-range, with the bytes it covers.
Copy(range, new_base, new_limit) ==
  [base |-> new_base, limit |-> new_limit, valid |-> range.valid,
   version |-> range.version, lazy |-> range.lazy,
   data |-> [a \in (new_base..(new_limit - 1)) \cap DOMAIN range.data
               |-> range.data[a]]]

\* clone(): a new range with the same bytes and the same digest.
Clone(range) == range

\* invalidate_code_version(): a valid range gets a fresh token.
InvalidateCodeVersion(range, token) ==
  IF range.valid THEN [range EXCEPT !.version = token] ELSE range

\* compute_code_version(): the cached token.
RangeCodeVersion(range) == range.version

(***************************************************************************)
(* The heap of range objects.  A world is a record [heap, spaces,          *)
(* next_token]; the operations below map worlds to worlds.                 *)
(***************************************************************************)
HeapAlloc(h, range) ==
  LET id == Cardinality(DOMAIN h)
  IN [heap |-> [i \in (DOMAIN h) \cup {id} |-> IF i = id THEN range ELSE h[i]],
      id |-> id]

EmptyCache == [i \in 0..kRangeCacheSize |-> kNull]
EmptyIndex == [p \in {} |-> kNull]

Cur == [heap |-> heap, spaces |-> spaces, next_token |-> next_token,
        version_code |-> version_code]

\* The return value of a call that returns nothing.
Void == [op |-> "void"]

\* Range ids in the order a traversal of the address spaces meets them.
RECURSIVE FunSeq(_, _)
FunSeq(f, D) ==
  IF D = {} THEN <<>>
  ELSE LET m == CHOOSE x \in D : \A y \in D : x <= y
       IN <<f[m]>> \o FunSeq(f, D \ {m})

RECURSIVE SpaceRefs(_, _)
SpaceRefs(sp, s) ==
  IF s > NumSpaces THEN <<>>
  ELSE sp[s].maps
         \o FunSeq(sp[s].page_to_map, DOMAIN sp[s].page_to_map)
         \o FunSeq(sp[s].wnx_page_to_map, DOMAIN sp[s].wnx_page_to_map)
         \o SpaceRefs(sp, s + 1)

RECURSIVE Dedup(_, _)
Dedup(seq, seen) ==
  IF seq = <<>> THEN <<>>
  ELSE IF Head(seq) \in seen THEN Dedup(Tail(seq), seen)
  ELSE <<Head(seq)>> \o Dedup(Tail(seq), seen \cup {Head(seq)})

\* Unreferenced range objects are freed (the shared_ptr count drops to
\* zero) and the live ones are renumbered in traversal order: an index is
\* an opaque pointer, so worlds that differ in numbering only are one state.
Collect(W) ==
  LET order == <<kInvalid>> \o Dedup(SpaceRefs(W.spaces, 1), {kInvalid})
      new_id == [old \in SeqRange(order) |->
                   (CHOOSE i \in 1..Len(order) : order[i] = old) - 1]
      ren(x) == IF x = kNull THEN kNull ELSE new_id[x]
      renf(f) == [k \in DOMAIN f |-> ren(f[k])]
  IN [W EXCEPT
        !.heap = [i \in 0..(Len(order) - 1) |-> W.heap[order[i + 1]]],
        !.spaces = [s \in Spaces |->
           [W.spaces[s] EXCEPT
              !.maps = renf(@),
              !.page_to_map = renf(@),
              !.wnx_page_to_map = renf(@),
              !.last_map_cache = renf(@),
              !.wnx_last_map_cache = renf(@)]]]

\* The step of a call that leaves world W and the executor e and returns
\* r, when the range objects and the tokens of W fit the bounds of the
\* model.
CommitWith(W, r, e) ==
  LET C == Collect(W)
  IN /\ Cardinality(DOMAIN C.heap) <= MaxRanges + 1
     /\ C.next_token <= MaxToken + 1
     /\ heap' = C.heap
     /\ spaces' = C.spaces
     /\ next_token' = C.next_token
     /\ ret' = r
     /\ calls' = calls + 1
     /\ executor' = e
     /\ UNCHANGED <<version_code, decoder, runtime>>

\* The step of a call on an address space, which the executor has no part
\* in.
Commit(W, r) == CommitWith(W, r, executor)

(***************************************************************************)
(* AddressSpace.                                                           *)
(***************************************************************************)
\* AddressSpace::AddressSpace(const remill::Arch *): `invalid` is the only
\* map; no page has a permission, so both indices are empty.
NewSpace ==
  [live |-> TRUE,
   maps |-> <<kInvalid>>,
   page_to_map |-> EmptyIndex,
   wnx_page_to_map |-> EmptyIndex,
   last_map_cache |-> EmptyCache,
   wnx_last_map_cache |-> EmptyCache,
   page_is_readable |-> {},
   page_is_writable |-> {},
   page_is_executable |-> {},
   trace_heads |-> {},
   is_dead |-> FALSE,
   initial_program_break |-> kNoBreak]

\* A slot of `spaces` that holds no address space yet.
NoSpace == [NewSpace EXCEPT !.live = FALSE, !.maps = <<>>]

CanReadAligned(sp, addr) == addr \in sp.page_is_readable
CanWriteAligned(sp, addr) == addr \in sp.page_is_writable
CanExecuteAligned(sp, addr) == addr \in sp.page_is_executable

CanRead(sp, addr) == CanReadAligned(sp, AlignDownToPage(addr % AddrSpaceSize))
CanWrite(sp, addr) == CanWriteAligned(sp, AlignDownToPage(addr % AddrSpaceSize))
CanExecute(sp, addr) ==
  CanExecuteAligned(sp, AlignDownToPage(addr % AddrSpaceSize))

\* Whether p is one of the addresses base, base + kPageSize, ... below limit.
InRangePages(range, p) ==
  range.base <= p /\ p < range.limit /\ (p - range.base) % kPageSize = 0

\* std::sort by base address: the orders it may leave ranges of equal base in.
RECURSIVE SortOrders(_, _)
SortOrders(h, ids) ==
  IF ids = {} THEN {<<>>}
  ELSE LET firsts == {x \in ids : \A y \in ids : h[x].base <= h[y].base}
       IN UNION {{<<x>> \o rest : rest \in SortOrders(h, ids \ {x})} :
                 x \in firsts}

\* The index the loop over `order` builds of the pages in `keep`: a later map
\* overwrites an earlier.
PageIndex(h, order, keep) ==
  LET hits(p) == {i \in 1..Len(order) :
                    /\ IsValid(h[order[i]])
                    /\ InRangePages(h[order[i]], p)
                    /\ p \in keep}
      pages == {p \in PageAddrs : hits(p) # {}}
  IN [p \in pages |->
        order[CHOOSE i \in hits(p) : \A j \in hits(p) : j <= i]]

\* AddressSpace::CreatePageToRangeMap, with `order` the outcome of the sort.
CreatePageToRangeMapAs(W, s, order) ==
  LET sp == W.spaces[s]
      any == {p \in PageAddrs : CanReadAligned(sp, p) \/ CanWriteAligned(sp, p)
                                   \/ CanExecuteAligned(sp, p)}
      wnx == {p \in PageAddrs : CanWriteAligned(sp, p)
                                   /\ ~CanExecuteAligned(sp, p)}
  IN [W EXCEPT !.spaces[s] =
        [sp EXCEPT
           !.maps = order,
           !.page_to_map = PageIndex(W.heap, order, any),
           !.wnx_page_to_map = PageIndex(W.heap, order, wnx),
           !.last_map_cache = EmptyCache,
           !.wnx_last_map_cache = EmptyCache]]

CreatePageToRangeMap(W, s) ==
  {CreatePageToRangeMapAs(W, s, order) :
     order \in SortOrders(W.heap, SeqRange(W.spaces[s].maps))}

\* AddressSpace::SetPermissions.
SetPermissions(W, s, base_, size, can_read, can_write, can_exec) ==
  LET base == AlignDownToPage(base_)
      limit == base + RoundUpToPage(size)
      region == {a \in base..(limit - 1) : (a - base) % kPageSize = 0}
      upd(set, on) == IF on THEN set \cup region ELSE set \ region
      sp == W.spaces[s]
      W2 == [W EXCEPT !.spaces[s] =
               [sp EXCEPT
                  !.page_is_readable = upd(@, can_read),
                  !.page_is_writable = upd(@, can_write),
                  !.page_is_executable = upd(@, can_exec)]]
  IN CreatePageToRangeMap(W2, s)

\* RemoveRange: the maps of `ranges` with [base, limit) cut out of them.
RECURSIVE RemoveRangeFrom(_, _, _, _, _, _)
RemoveRangeFrom(h, ranges, i, base, limit, new_ranges) ==
  IF i > Len(ranges) THEN [heap |-> h, ranges |-> new_ranges]
  ELSE
    LET map == h[ranges[i]]
        map_base_address == BaseAddress(map)
        map_limit_address == LimitAddress(map)
    IN IF map_limit_address <= base \/ map_base_address >= limit
       THEN RemoveRangeFrom(h, ranges, i + 1, base, limit,
                            Append(new_ranges, ranges[i]))
       ELSE IF map_base_address >= base /\ map_limit_address <= limit
       THEN RemoveRangeFrom(h, ranges, i + 1, base, limit, new_ranges)
       ELSE IF map_base_address < base /\ map_limit_address > limit
       THEN LET lo == HeapAlloc(h, Copy(map, map_base_address, base))
                hi == HeapAlloc(lo.heap, Copy(map, limit, map_limit_address))
            IN RemoveRangeFrom(hi.heap, ranges, i + 1, base, limit,
                               new_ranges \o <<lo.id, hi.id>>)
       ELSE IF map_base_address = base
       THEN LET hi == HeapAlloc(h, Copy(map, limit, map_limit_address))
            IN RemoveRangeFrom(hi.heap, ranges, i + 1, base, limit,
                               Append(new_ranges, hi.id))
       ELSE LET lo == HeapAlloc(h, Copy(map, map_base_address, base))
            IN RemoveRangeFrom(lo.heap, ranges, i + 1, base, limit,
                               Append(new_ranges, lo.id))

RemoveRange(h, ranges, base, limit) ==
  RemoveRangeFrom(h, ranges, 1, base, limit, <<>>)

\* A replacement of the maps of [base, limit) that also forgets the trace
\* heads inside the region.
ReplaceRangeAndTraceHeads(W, s, base, limit, new_map) ==
  LET old_ranges == RemoveRange(W.heap, W.spaces[s].maps, base, limit)
      new == HeapAlloc(old_ranges.heap, new_map)
  IN [W EXCEPT !.heap = new.heap,
               !.spaces[s].maps = Append(old_ranges.ranges, new.id),
               !.spaces[s].trace_heads =
                  {pc \in @ : ~(base <= pc /\ pc < limit)}]

\* The map `new_map` put over [base, limit) in address space s.
ReplaceRange(W, s, base, limit, new_map) ==
  LET old_ranges == RemoveRange(W.heap, W.spaces[s].maps, base, limit)
      new == HeapAlloc(old_ranges.heap, new_map)
  IN [W EXCEPT !.heap = new.heap,
               !.spaces[s].maps = Append(old_ranges.ranges, new.id)]

\* A CreateMap that leaves the pages of the new map with the permissions
\* they had.
CreateMapKeepingPermissions(W, s, base_, size) ==
  LET base == AlignDownToPage(base_)
      limit == Min(base + RoundUpToPage(size), addr_mask)
  IN IF W.spaces[s].is_dead THEN {W}
     ELSE CreatePageToRangeMap(
            ReplaceRange(W, s, base, limit, Create(base, limit)), s)

\* AddressSpace::CreateMap (and the AddMap that only calls it).
CreateMap(W, s, base_, size) ==
  LET base == AlignDownToPage(base_)
      limit == Min(base + RoundUpToPage(size), addr_mask)
  IN IF W.spaces[s].is_dead THEN {W}
     ELSE SetPermissions(ReplaceRange(W, s, base, limit, Create(base, limit)),
                         s, base, limit - base, TRUE, TRUE, FALSE)

\* CreateMap for a map whose range MappedRange::Create makes anonymous-zero.
CreateZeroMap(W, s, base_, size) ==
  LET base == AlignDownToPage(base_)
      limit == Min(base + RoundUpToPage(size), addr_mask)
  IN IF W.spaces[s].is_dead THEN {W}
     ELSE SetPermissions(
            ReplaceRange(W, s, base, limit, CreateZero(base, limit)),
            s, base, limit - base, TRUE, TRUE, FALSE)

\* What `map->LimitAddress()` yields for the map CreateMap has returned,
\* in the world W that CreateMap has left.  CreateMap returns maps.back()
\* after SetPermissions has sorted the maps, which is the last range in
\* address order.  On a dead address space it returns a null pointer and
\* the call is undefined: the program crashes (kNull) or goes on with some
\* address read through the null pointer.
CreatedMapLimits(W, s) ==
  IF W.spaces[s].is_dead THEN {kNull, 0, addr_mask}
  ELSE {LimitAddress(W.heap[W.spaces[s].maps[Len(W.spaces[s].maps)]])}

\* AddressSpace::AddMap(const snapshot::PageRange &, uint64_t) for a page
\* range [base, limit) of the heap kind (is_heap) or of an anonymous kind:
\* the worlds it may leave, each with whether the program has crashed.
AddMapSnapshot(W, s, base, limit, is_heap, can_read, can_write, can_exec) ==
  LET size == limit - base
      breaks(W1) == IF is_heap THEN CreatedMapLimits(W1, s)
                    ELSE {W.spaces[s].initial_program_break}
  IN UNION {UNION {
       {IF is_heap /\ brk = kNull
        THEN [W |-> W1, crashed |-> TRUE]
        ELSE [W |-> W2, crashed |-> FALSE] :
          W2 \in SetPermissions(
                   [W1 EXCEPT !.spaces[s].initial_program_break = brk],
                   s, base, size, can_read, can_write, can_exec)} :
       brk \in breaks(W1)} : W1 \in CreateMap(W, s, base, size)}

\* AddressSpace::RemoveMap.
RemoveMap(W, s, base_, size) ==
  LET base == AlignDownToPage(base_)
      limit == Min(base + RoundUpToPage(size), addr_mask)
  IN IF W.spaces[s].is_dead THEN {W}
     ELSE SetPermissions(
            ReplaceRange(W, s, base, limit, CreateInvalid(base, limit)),
            s, base, limit - base, FALSE, FALSE, FALSE)

\* AddressSpace::Kill.
Kill(W, s) ==
  [W EXCEPT !.spaces[s] =
     [@ EXCEPT !.maps = <<>>,
               !.page_to_map = EmptyIndex,
               !.is_dead = TRUE,
               !.last_map_cache = EmptyCache,
               !.wnx_last_map_cache = EmptyCache]]

\* AddressSpace::IsDead.
IsDead(W, s) == W.spaces[s].is_dead

\* AddressSpace::IsMapped.
IsMapped(W, s, find) ==
  LET sp == W.spaces[s]
      page == AlignDownToPage(find)
  IN /\ ~sp.is_dead
     /\ page \in DOMAIN sp.page_to_map
     /\ IsValid(W.heap[sp.page_to_map[page]])

\* AddressSpace::MarkAsTraceHead and AddressSpace::IsMarkedTraceHead.
MarkAsTraceHead(W, s, pc) ==
  [W EXCEPT !.spaces[s].trace_heads = @ \cup {pc}]

IsMarkedTraceHead(W, s, pc) == pc \in W.spaces[s].trace_heads

\* The slot of a page in a direct-mapped range cache.
CacheIndex(page_addr) == (page_addr \div kPageSize) % kRangeCacheSize

\* The lookup FindRangeAligned and FindWNXRangeAligned both make, in the
\* cache `cache` backed by the index `index`: the range found and the cache
\* as the lookup leaves it.
CachedLookup(h, cache, index, page_addr) ==
  LET cache_index == CacheIndex(page_addr)
      hit(id) == id # kNull /\ Contains(h[id], page_addr)
  IN IF hit(cache[kRangeCacheSize])
     THEN [id |-> cache[kRangeCacheSize], cache |-> cache]
     ELSE IF hit(cache[cache_index])
     THEN [id |-> cache[cache_index],
           cache |-> [cache EXCEPT ![kRangeCacheSize] = cache[cache_index]]]
     ELSE IF page_addr \in DOMAIN index
     THEN [id |-> index[page_addr],
           cache |-> [cache EXCEPT ![kRangeCacheSize] = index[page_addr],
                                   ![cache_index] = index[page_addr]]]
     ELSE [id |-> kInvalid, cache |-> cache]

\* AddressSpace::FindRangeAligned and AddressSpace::FindRange.
FindRangeAligned(W, s, page_addr) ==
  LET sp == W.spaces[s]
      found == CachedLookup(W.heap, sp.last_map_cache, sp.page_to_map,
                            page_addr)
  IN [W |-> [W EXCEPT !.spaces[s].last_map_cache = found.cache],
      id |-> found.id]

FindRange(W, s, addr) == FindRangeAligned(W, s, AlignDownToPage(addr))

\* AddressSpace::FindWNXRangeAligned and AddressSpace::FindWNXRange.
FindWNXRangeAligned(W, s, page_addr) ==
  LET sp == W.spaces[s]
      found == CachedLookup(W.heap, sp.wnx_last_map_cache, sp.wnx_page_to_map,
                            page_addr)
  IN [W |-> [W EXCEPT !.spaces[s].wnx_last_map_cache = found.cache],
      id |-> found.id]

FindWNXRange(W, s, addr) == FindWNXRangeAligned(W, s, AlignDownToPage(addr))

\* The bytes at addr, addr + 1, ... of range id that can be accessed before
\* the first that cannot, below next_end_addr.
Accessible(h, id, addr, next_end_addr) ==
  {a \in addr..(next_end_addr - 1) :
     \A b \in addr..a : CanAccess(h[id], b)}

\* AddressSpace::TryRead(uint64_t, void *, size_t): the loop over the pages
\* from page_addr on, with `out` the bytes read so far.
RECURSIVE TryReadPages(_, _, _, _, _, _)
TryReadPages(W, s, page_addr, addr, end_addr, out) ==
  IF page_addr >= end_addr THEN [W |-> W, ok |-> TRUE, val |-> out]
  ELSE
    LET found == FindRangeAligned(W, s, page_addr)
        next_end_addr == Min(end_addr, page_addr + kPageSize)
        got == Accessible(found.W.heap, found.id, addr, next_end_addr)
        bytes == [i \in 1..Cardinality(got) |->
                    ReadByte(found.W.heap[found.id], addr + i - 1)]
    IN IF got # addr..(next_end_addr - 1)
       THEN [W |-> found.W, ok |-> FALSE, val |-> out \o bytes]
       ELSE TryReadPages(found.W, s, page_addr + kPageSize, next_end_addr,
                         end_addr, out \o bytes)

TryRead(W, s, addr_, size) ==
  LET addr == addr_ % AddrSpaceSize
  IN TryReadPages(W, s, AlignDownToPage(addr), addr, addr + size, <<>>)

\* AddressSpace::TryRead(uint64_t, uint8_t *).
TryReadByte(W, s, addr_) ==
  LET addr == addr_ % AddrSpaceSize
      found == FindRange(W, s, addr)
  IN IF CanAccess(found.W.heap[found.id], addr)
     THEN [W |-> found.W, ok |-> TRUE,
           val |-> <<ReadByte(found.W.heap[found.id], addr)>>]
     ELSE [W |-> found.W, ok |-> FALSE, val |-> <<>>]

\* ToReadOnlyVirtualAddress / ToReadWriteVirtualAddress of a range: whether
\* it yields a pointer for addr.  A range that cannot materialise its bytes
\* yields none.
HasVirtualAddress(range, addr) == CanAccess(range, addr) /\ ~range.lazy

\* MAKE_TRY_READ(type): a scalar of `size` bytes.
TryReadScalar(W, s, addr_, size) ==
  LET addr == addr_ % AddrSpaceSize
      found == FindRange(W, s, addr)
      range == found.W.heap[found.id]
      end_addr == addr + size - 1
  IN IF ~HasVirtualAddress(range, addr)
     THEN [W |-> found.W, ok |-> FALSE, val |-> <<>>]
     ELSE IF /\ BaseAddress(range) <= addr
             /\ end_addr < LimitAddress(range)
             /\ AlignDownToPage(addr) = AlignDownToPage(end_addr)
     THEN [W |-> found.W, ok |-> TRUE,
           val |-> [i \in 1..size |-> ReadByte(range, addr + i - 1)]]
     ELSE TryRead(found.W, s, addr, size)

\* A read of the byte at pc that does not ask for executable permission.
TryReadAnyPermission(W, s, pc) == TryReadByte(W, s, pc)

\* AddressSpace::TryReadExecutable.
TryReadExecutable(W, s, pc) ==
  LET addr == pc % AddrSpaceSize
      page_addr == AlignDownToPage(addr)
      found == FindRangeAligned(W, s, page_addr)
      range == found.W.heap[found.id]
  IN IF CanAccess(range, addr) /\ CanExecuteAligned(W.spaces[s], page_addr)
     THEN [W |-> found.W, ok |-> TRUE, val |-> <<ReadByte(range, addr)>>]
     ELSE [W |-> found.W, ok |-> FALSE, val |-> <<>>]

\* The bytes val[k], val[k + 1], ... stored at the addresses `where` of
\* range id, val[k] at addr.
StoreBytes(h, id, where, addr, val, k) ==
  [h EXCEPT ![id].data =
     [a \in DOMAIN @ |-> IF a \in where THEN val[k + (a - addr)] ELSE @[a]],
            ![id].lazy = @ /\ where = {}]

\* A test for a write to code that does not look at FLAGS_version_code.
WritesExecutable(W, s, page_addr) ==
  CanExecuteAligned(W.spaces[s], page_addr)

\* Whether a write to page page_addr is a write to code whose version is
\* tracked: FLAGS_version_code && CanExecuteAligned(page_addr).
WritesCode(W, s, page_addr) ==
  W.version_code /\ CanExecuteAligned(W.spaces[s], page_addr)

\* AddressSpace::TryWrite(uint64_t, const void *, size_t): the loop over the
\* pages from page_addr on; val[k] is the byte for addr.
RECURSIVE TryWritePages(_, _, _, _, _, _, _)
TryWritePages(W, s, page_addr, addr, end_addr, val, k) ==
  IF page_addr >= end_addr THEN [W |-> W, ok |-> TRUE]
  ELSE IF ~CanWriteAligned(W.spaces[s], page_addr)
  THEN [W |-> W, ok |-> FALSE]
  ELSE
    LET found == FindRangeAligned(W, s, page_addr)
        smc == WritesCode(W, s, page_addr)
        fresh == smc /\ IsValid(found.W.heap[found.id])
        W1 == IF smc
              THEN [found.W EXCEPT
                      !.heap[found.id] =
                         InvalidateCodeVersion(@, W.next_token),
                      !.next_token = IF fresh THEN @ + 1 ELSE @,
                      !.spaces[s].trace_heads = {}]
              ELSE found.W
        next_end_addr == Min(end_addr, page_addr + kPageSize)
        put == Accessible(W1.heap, found.id, addr, next_end_addr)
        W2 == [W1 EXCEPT
                 !.heap = StoreBytes(@, found.id, put, addr, val, k)]
    IN IF put # addr..(next_end_addr - 1)
       THEN [W |-> W2, ok |-> FALSE]
       ELSE TryWritePages(W2, s, page_addr + kPageSize, next_end_addr,
                          end_addr, val, k + (next_end_addr - addr))

TryWrite(W, s, addr_, val) ==
  LET addr == addr_ % AddrSpaceSize
  IN TryWritePages(W, s, AlignDownToPage(addr), addr, addr + Len(val), val, 1)

\* AddressSpace::TryWrite(uint64_t, uint8_t).
TryWriteByte(W, s, addr_, val) ==
  LET addr == addr_ % AddrSpaceSize
      found == FindWNXRange(W, s, addr)
  IN IF CanAccess(found.W.heap[found.id], addr)
     THEN [W |-> [found.W EXCEPT
                    !.heap[found.id] = WriteByte(@, addr, val)],
           ok |-> TRUE]
     ELSE TryWrite(found.W, s, addr, <<val>>)

\* A typed write that stores through the pointer whenever the range yields
\* one, without comparing the end of the scalar with the limit of the range
\* and with the page boundary.
TryWriteScalarUnbounded(W, s, addr_, val) ==
  LET addr == addr_ % AddrSpaceSize
      found == FindWNXRange(W, s, addr)
      range == found.W.heap[found.id]
      end_addr == addr + Len(val) - 1
  IN IF HasVirtualAddress(range, addr)
     THEN [W |-> [found.W EXCEPT
                    !.heap = StoreBytes(@, found.id, addr..end_addr, addr,
                                        val, 1)],
           ok |-> TRUE]
     ELSE TryWrite(found.W, s, addr, val)

\* MAKE_TRY_WRITE(type): a scalar of Len(val) bytes.
TryWriteScalar(W, s, addr_, val) ==
  LET addr == addr_ % AddrSpaceSize
      found == FindWNXRange(W, s, addr)
      range == found.W.heap[found.id]
      end_addr == addr + Len(val) - 1
  IN IF /\ HasVirtualAddress(range, addr)
        /\ BaseAddress(range) <= addr
        /\ end_addr < LimitAddress(range)
        /\ AlignDownToPage(addr) = AlignDownToPage(end_addr)
     THEN [W |-> [found.W EXCEPT
                    !.heap = StoreBytes(@, found.id, addr..end_addr, addr,
                                        val, 1)],
           ok |-> TRUE]
     ELSE TryWrite(found.W, s, addr, val)

\* AddressSpace::ComputeCodeVersion.
ComputeCodeVersion(W, s, pc) ==
  IF W.version_code
  THEN LET found == FindRange(W, s, pc % AddrSpaceSize)
       IN [W |-> found.W, val |-> RangeCodeVersion(found.W.heap[found.id])]
  ELSE [W |-> W, val |-> 0]

\* A copy that keeps the parent's range objects instead of cloning the valid
\* ones: parent and child then write to the same bytes.
CloneMapsShared(h, parent_maps, i, maps) == [heap |-> h, maps |-> parent_maps]

\* AddressSpace::AddressSpace(const AddressSpace &): the maps of the clone.
RECURSIVE CloneMaps(_, _, _, _)
CloneMaps(h, parent_maps, i, maps) ==
  IF i > Len(parent_maps) THEN [heap |-> h, maps |-> maps]
  ELSE LET range == h[parent_maps[i]]
       IN IF IsValid(range)
          THEN LET new == HeapAlloc(h, Clone(range))
               IN CloneMaps(new.heap, parent_maps, i + 1, Append(maps, new.id))
          ELSE CloneMaps(h, parent_maps, i + 1, Append(maps, parent_maps[i]))

\* AddressSpace::AddressSpace(const AddressSpace &): address space c is
\* constructed as a copy of address space s.
CloneSpace(W, s, c) ==
  LET parent == W.spaces[s]
      cloned == CloneMaps(W.heap, parent.maps, 1, <<>>)
      child == [live |-> TRUE,
                maps |-> cloned.maps,
                page_to_map |-> EmptyIndex,
                wnx_page_to_map |-> EmptyIndex,
                last_map_cache |-> EmptyCache,
                wnx_last_map_cache |-> EmptyCache,
                page_is_readable |-> parent.page_is_readable,
                page_is_writable |-> parent.page_is_writable,
                page_is_executable |-> parent.page_is_executable,
                trace_heads |-> parent.trace_heads,
                is_dead |-> parent.is_dead,
                initial_program_break |-> kNoBreak]
  IN CreatePageToRangeMap(
       [W EXCEPT !.heap = cloned.heap, !.spaces[c] = child], c)

\* AddressSpace::FindHole: the scan of maps[i], maps[i - 1], ... for a hole
\* of `size` bytes within [min, max).  A failed CHECK aborts the program.
RECURSIVE FindHoleFrom(_, _, _, _, _, _)
FindHoleFrom(h, maps, i, min, max, size) ==
  IF i < 1 THEN [status |-> "none", hole |-> 0]
  ELSE
    LET range_high == h[maps[i]]
        at_end == i = 1
        high_base == IF ~IsValid(range_high) THEN LimitAddress(range_high)
                     ELSE BaseAddress(range_high)
        low_limit == IF ~IsValid(range_high) THEN BaseAddress(range_high)
                     ELSE LimitAddress(h[maps[i - 1]])
        alloc_max == Min(max, high_base)
        alloc_min == Max(min, low_limit)
        avail_size == alloc_max - alloc_min
    IN IF IsValid(range_high) /\ at_end THEN [status |-> "none", hole |-> 0]
       ELSE IF high_base < min THEN [status |-> "none", hole |-> 0]
       ELSE IF ~(low_limit <= high_base) THEN [status |-> "abort", hole |-> 0]
       ELSE IF low_limit >= max
       THEN FindHoleFrom(h, maps, i - 1, min, max, size)
       ELSE IF avail_size < size
       THEN FindHoleFrom(h, maps, i - 1, min, max, size)
       ELSE [status |-> "ok", hole |-> alloc_max - size]

FindHole(W, s, min_, max_, size_) ==
  LET min == AlignDownToPage(min_)
      max == AlignDownToPage(max_)
      size == RoundUpToPage(size_)
  IN IF size_ = 0 THEN [status |-> "none", hole |-> 0]
     ELSE IF min >= max THEN [status |-> "none", hole |-> 0]
     ELSE IF size > max - min THEN [status |-> "none", hole |-> 0]
     ELSE FindHoleFrom(W.heap, W.spaces[s].maps, Len(W.spaces[s].maps),
                       min, max, size)

\* Executor::Executor: no initial task, no live trace, Run not called.
\* `log` is the sequence of the runtime intrinsics and dispatches invoked.
NewExecutor ==
  [initial_tasks |-> <<>>, live_traces |-> [id \in {} |-> 0],
   tasks |-> <<>>, position |-> "constructed", log |-> <<>>]

\* No DecodeTraces is under way.
NoDecoder ==
  [position |-> "idle", start_pc |-> 0, was_trace_heads |-> {},
   trace_list |-> {}, work_list |-> {}, traces |-> <<>>,
   trace |-> [pc |-> 0, code_version |-> 0, instructions |-> [p \in {} |-> 0]],
   decoded |-> <<>>, started |-> <<>>, check_failed |-> FALSE]

\* A vmill::Task no __vmill_init_task has run on.  `position` is how far
\* the owner of the task has got with it.
NoTask ==
  [position |-> "new", state |-> kNull, pc |-> 0, status |-> "none",
   status_on_resume |-> "none", location |-> "none", memory |-> kNull,
   async_routine |-> kNull, fpu_rounding_mode |-> 0, program_break |-> 0]

\* The runtime before any task is set up: `states` holds the State objects
\* that are allocated, by address, `coroutines` the addresses of the
\* coroutines that are allocated, and `freed` every address that was
\* handed to delete or to __vmill_free_coroutine.
NoRuntime ==
  [tasks |-> [t \in 1..NumTasks |-> NoTask],
   states |-> [id \in {} |-> 0],
   coroutines |-> {},
   freed |-> <<>>]

(***************************************************************************)
(* The calls a client makes, as actions.                                   *)
(***************************************************************************)
Live(s) == spaces[s].live

\* A failed CHECK has ended the program.
Aborted == ret.op = "FindHole" /\ ret.status = "abort"

AddMapCall(s, base_, size) ==
  /\ Live(s)
  /\ \E W \in CreateMap(Cur, s, base_, size) : Commit(W, Void)

RemoveMapCall(s, base_, size) ==
  /\ Live(s)
  /\ \E W \in RemoveMap(Cur, s, base_, size) : Commit(W, Void)

\* The pages named are pages of the address space.
SetPermissionsCall(s, base_, size, can_read, can_write, can_exec) ==
  /\ Live(s)
  /\ AlignDownToPage(base_) + RoundUpToPage(size) <= AddrSpaceSize
  /\ \E W \in SetPermissions(Cur, s, base_, size, can_read, can_write,
                             can_exec) : Commit(W, Void)

KillCall(s) ==
  /\ Live(s)
  /\ Commit(Kill(Cur, s), Void)

MarkAsTraceHeadCall(s, pc) ==
  /\ Live(s)
  /\ Commit(MarkAsTraceHead(Cur, s, pc), Void)

TryReadByteCall(s, addr) ==
  /\ Live(s)
  /\ Commit(TryReadByte(Cur, s, addr).W, Void)

TryReadCall(s, addr, size) ==
  /\ Live(s)
  /\ Commit(TryRead(Cur, s, addr, size).W, Void)

TryWriteCall(s, addr, val) ==
  /\ Live(s)
  /\ Commit(TryWrite(Cur, s, addr, val).W, Void)

TryWriteByteCall(s, addr, val) ==
  /\ Live(s)
  /\ Commit(TryWriteByte(Cur, s, addr, val).W, Void)

TryWriteScalarCall(s, addr, val) ==
  /\ Live(s)
  /\ Commit(TryWriteScalar(Cur, s, addr, val).W, Void)

ComputeCodeVersionCall(s, pc) ==
  /\ Live(s)
  /\ Commit(ComputeCodeVersion(Cur, s, pc).W, Void)

\* Address space c is constructed as a clone of address space s.
CloneCall(s, c) ==
  /\ Live(s)
  /\ ~Live(c)
  /\ \E W \in CloneSpace(Cur, s, c) : Commit(W, Void)

FindHoleCall(s, min_, max_, size_) ==
  /\ Live(s)
  /\ LET r == FindHole(Cur, s, min_, max_, size_)
     IN Commit(Cur, [op |-> "FindHole", space |-> s, min |-> min_,
                     max |-> max_, size |-> size_, status |-> r.status,
                     hole |-> r.hole])

Init ==
  /\ heap = [i \in {kInvalid} |-> CreateInvalid(0, addr_mask)]
  /\ spaces = [s \in Spaces |-> IF s = 1 THEN NewSpace ELSE NoSpace]
  /\ next_token = 1
  /\ version_code \in BOOLEAN
  /\ ret = Void
  /\ calls = 0
  /\ executor = NewExecutor
  /\ decoder = NoDecoder
  /\ runtime = NoRuntime

(***************************************************************************)
(* SpecMaps: one address space whose maps and permissions change.          *)
(***************************************************************************)
\* The arguments the calls are made with: every page address and one
\* address inside a page; sizes of whole pages and of one byte.
BaseInputs == PageAddrs \cup {kPageSize + 1}
SizeInputs == {1} \cup {n \in 1..AddrSpaceSize : n % kPageSize = 0}
\* (can_read, can_write, can_exec) of a SetPermissions call.
PermInputs == {<<FALSE, FALSE, FALSE>>, <<TRUE, TRUE, FALSE>>,
               <<TRUE, FALSE, TRUE>>}

\* Code versioning is off, as it is by default.
InitMaps == Init /\ version_code = FALSE

MapsAddMap ==
  /\ calls < MaxCalls
  /\ \E b \in BaseInputs, n \in SizeInputs : AddMapCall(1, b, n)
MapsRemoveMap ==
  /\ calls < MaxCalls
  /\ \E b \in BaseInputs, n \in SizeInputs : RemoveMapCall(1, b, n)
MapsSetPermissions ==
  /\ calls < MaxCalls
  /\ \E b \in BaseInputs, n \in SizeInputs, p \in PermInputs :
        SetPermissionsCall(1, b, n, p[1], p[2], p[3])
MapsKill ==
  /\ calls < MaxCalls
  /\ KillCall(1)

NextMaps == MapsAddMap \/ MapsRemoveMap \/ MapsSetPermissions \/ MapsKill

SpecMaps == InitMaps /\ [][NextMaps]_vars

(***************************************************************************)
(* SpecSMC: one address space with code versioning on, whose pages are     *)
(* written while some of them are executable.                              *)
(***************************************************************************)
\* The two pages the map of this specification covers, and their bytes.
SMCPages == {0, kPageSize}
SMCAddrs == 0..(2 * kPageSize - 1)
\* The values written: one byte, and a scalar of two bytes.
WriteVals == {<<1>>, <<1, 1>>}
SMCPerms == {<<FALSE, FALSE, FALSE>>, <<TRUE, TRUE, TRUE>>}

InitSMC == Init /\ version_code = TRUE

SMCAddMap ==
  /\ calls < MaxSMCCalls
  /\ \E n \in {kPageSize, 2 * kPageSize} : AddMapCall(1, 0, n)
SMCSetPermissions ==
  /\ calls < MaxSMCCalls
  /\ \E b \in SMCPages, p \in SMCPerms :
        SetPermissionsCall(1, b, kPageSize, p[1], p[2], p[3])
SMCMarkAsTraceHead ==
  /\ calls < MaxSMCCalls
  /\ \E pc \in SMCPages : MarkAsTraceHeadCall(1, pc)
SMCTryWriteByte ==
  /\ calls < MaxSMCCalls
  /\ \E a \in SMCAddrs : TryWriteByteCall(1, a, 1)
SMCTryWrite ==
  /\ calls < MaxSMCCalls
  /\ \E a \in SMCAddrs, val \in WriteVals : TryWriteCall(1, a, val)
SMCTryWriteScalar ==
  /\ calls < MaxSMCCalls
  /\ \E a \in SMCAddrs : TryWriteScalarCall(1, a, <<1, 1>>)
SMCComputeCodeVersion ==
  /\ calls < MaxSMCCalls
  /\ \E pc \in SMCPages : ComputeCodeVersionCall(1, pc)

NextSMC ==
  \/ SMCAddMap
  \/ SMCSetPermissions
  \/ SMCMarkAsTraceHead
  \/ SMCTryWriteByte
  \/ SMCTryWrite
  \/ SMCTryWriteScalar
  \/ SMCComputeCodeVersion

SpecSMC == InitSMC /\ [][NextSMC]_vars

(***************************************************************************)
(* SpecClone: address space 1 is set up and cloned into address space 2,   *)
(* and the clone is then changed.                                          *)
(***************************************************************************)
CloneAddMap ==
  /\ calls < MaxCloneCalls
  /\ ~Live(2)
  /\ \E n \in {kPageSize, 2 * kPageSize} : AddMapCall(1, 0, n)
CloneSetPermissions ==
  /\ calls < MaxCloneCalls
  /\ ~Live(2)
  /\ \E b \in SMCPages, p \in SMCPerms :
        SetPermissionsCall(1, b, kPageSize, p[1], p[2], p[3])
CloneMarkAsTraceHead ==
  /\ calls < MaxCloneCalls
  /\ ~Live(2)
  /\ MarkAsTraceHeadCall(1, 0)
CloneTryReadByte ==
  /\ calls < MaxCloneCalls
  /\ ~Live(2)
  /\ \E a \in SMCPages : TryReadByteCall(1, a)
CloneClone ==
  /\ calls < MaxCloneCalls
  /\ CloneCall(1, 2)
ChildTryWriteByte ==
  /\ calls < MaxCloneCalls
  /\ \E a \in SMCPages : TryWriteByteCall(2, a, 1)
ChildTryWrite ==
  /\ calls < MaxCloneCalls
  /\ \E a \in SMCPages \cup {1} : TryWriteCall(2, a, <<1, 1>>)
ChildTryWriteScalar ==
  /\ calls < MaxCloneCalls
  /\ \E a \in SMCPages : TryWriteScalarCall(2, a, <<1, 1>>)
ChildAddMap ==
  /\ calls < MaxCloneCalls
  /\ \E b \in SMCPages : AddMapCall(2, b, kPageSize)
ChildRemoveMap ==
  /\ calls < MaxCloneCalls
  /\ \E b \in SMCPages : RemoveMapCall(2, b, kPageSize)
ChildSetPermissions ==
  /\ calls < MaxCloneCalls
  /\ \E b \in SMCPages, p \in SMCPerms :
        SetPermissionsCall(2, b, kPageSize, p[1], p[2], p[3])

NextClone ==
  \/ CloneAddMap
  \/ CloneSetPermissions
  \/ CloneMarkAsTraceHead
  \/ CloneTryReadByte
  \/ CloneClone
  \/ ChildTryWriteByte
  \/ ChildTryWrite
  \/ ChildTryWriteScalar
  \/ ChildAddMap
  \/ ChildRemoveMap
  \/ ChildSetPermissions

SpecClone == InitSMC /\ [][NextClone]_vars

(***************************************************************************)
(* SpecHole: one address space whose maps change and in which holes are    *)
(* looked for.                                                             *)
(***************************************************************************)
HoleMins == {0, 1, kPageSize}
HoleMaxs == {kPageSize, 2 * kPageSize, AddrSpaceSize}
HoleSizes == {1, kPageSize, 2 * kPageSize}

HoleAddMap == ~Aborted /\ MapsAddMap
HoleRemoveMap == ~Aborted /\ MapsRemoveMap
HoleSetPermissions == ~Aborted /\ MapsSetPermissions
HoleFindHole ==
  /\ ~Aborted
  /\ calls < MaxCalls
  /\ \E min_ \in HoleMins, max_ \in HoleMaxs, size_ \in HoleSizes :
        FindHoleCall(1, min_, max_, size_)

NextHole ==
  \/ HoleAddMap
  \/ HoleRemoveMap
  \/ HoleSetPermissions
  \/ HoleFindHole

SpecHole == InitMaps /\ [][NextHole]_vars

(***************************************************************************)
(* SpecAccess: one address space, with code versioning off, whose first    *)
(* two pages are mapped, protected, read and written, and which may be     *)
(* killed.  Each call leaves in `ret` what it was called with and what it  *)
(* returned; add_map also leaves there which pages were executable when it *)
(* was called.                                                             *)
(***************************************************************************)
\* (base, size) of the maps added and removed.
AccessMaps == {<<0, kPageSize>>, <<0, 2 * kPageSize>>, <<kPageSize, kPageSize>>}
\* (can_read, can_write, can_exec) of a SetPermissions call.
AccessPerms == {<<FALSE, FALSE, FALSE>>, <<TRUE, FALSE, FALSE>>,
                <<FALSE, TRUE, FALSE>>, <<TRUE, FALSE, TRUE>>}

\* The program has crashed in a call.
Crashed == ret.op = "crash"

AccessAddMap ==
  /\ ~Crashed
  /\ calls < MaxAccessCalls
  /\ \E m \in AccessMaps : \E W \in CreateMap(Cur, 1, m[1], m[2]) :
        Commit(W, [op |-> "AddMap", base |-> m[1], size |-> m[2],
                   was_executable |-> spaces[1].page_is_executable])
AccessAddZeroMap ==
  /\ ~Crashed
  /\ calls < MaxAccessCalls
  /\ \E m \in AccessMaps : \E W \in CreateZeroMap(Cur, 1, m[1], m[2]) :
        Commit(W, [op |-> "AddMap", base |-> m[1], size |-> m[2],
                   was_executable |-> spaces[1].page_is_executable])
AccessAddMapSnapshot ==
  /\ ~Crashed
  /\ calls < MaxAccessCalls
  /\ \E is_heap \in BOOLEAN, p \in {<<TRUE, FALSE, TRUE>>} :
     \E r \in AddMapSnapshot(Cur, 1, 0, kPageSize, is_heap, p[1], p[2], p[3]) :
        Commit(r.W, IF r.crashed THEN [op |-> "crash"]
                    ELSE [op |-> "AddMapSnapshot", base |-> 0,
                          size |-> kPageSize])
AccessRemoveMap ==
  /\ ~Crashed
  /\ calls < MaxAccessCalls
  /\ \E m \in AccessMaps : \E W \in RemoveMap(Cur, 1, m[1], m[2]) :
        Commit(W, [op |-> "RemoveMap", base |-> m[1], size |-> m[2]])
AccessSetPermissions ==
  /\ ~Crashed
  /\ calls < MaxAccessCalls
  /\ \E b \in SMCPages, p \in AccessPerms :
     \E W \in SetPermissions(Cur, 1, b, kPageSize, p[1], p[2], p[3]) :
        Commit(W, [op |-> "SetPermissions", base |-> b, size |-> kPageSize])
AccessKill ==
  /\ ~Crashed
  /\ calls < MaxAccessCalls
  /\ Commit(Kill(Cur, 1), [op |-> "Kill"])
AccessTryRead ==
  /\ ~Crashed
  /\ calls < MaxAccessCalls
  /\ \E a \in SMCAddrs, n \in {1, 2} :
        LET r == TryRead(Cur, 1, a, n)
        IN Commit(r.W, [op |-> "TryRead", addr |-> a, size |-> n,
                        ok |-> r.ok, val |-> r.val])
AccessTryReadByte ==
  /\ ~Crashed
  /\ calls < MaxAccessCalls
  /\ \E a \in SMCAddrs :
        LET r == TryReadByte(Cur, 1, a)
        IN Commit(r.W, [op |-> "TryReadByte", addr |-> a, size |-> 1,
                        ok |-> r.ok, val |-> r.val])
AccessTryReadScalar ==
  /\ ~Crashed
  /\ calls < MaxAccessCalls
  /\ \E a \in SMCAddrs :
        LET r == TryReadScalar(Cur, 1, a, 2)
        IN Commit(r.W, [op |-> "TryReadScalar", addr |-> a, size |-> 2,
                        ok |-> r.ok, val |-> r.val])
AccessTryReadExecutable ==
  /\ ~Crashed
  /\ calls < MaxAccessCalls
  /\ \E a \in SMCAddrs :
        LET r == TryReadExecutable(Cur, 1, a)
        IN Commit(r.W, [op |-> "TryReadExecutable", addr |-> a, size |-> 1,
                        ok |-> r.ok, val |-> r.val])
AccessTryWrite ==
  /\ ~Crashed
  /\ calls < MaxAccessCalls
  /\ \E a \in SMCAddrs, val \in {<<1>>, <<1, 2>>} :
        LET r == TryWrite(Cur, 1, a, val)
        IN Commit(r.W, [op |-> "TryWrite", addr |-> a, size |-> Len(val),
                        ok |-> r.ok, val |-> val])
AccessTryWriteByte ==
  /\ ~Crashed
  /\ calls < MaxAccessCalls
  /\ \E a \in SMCAddrs :
        LET r == TryWriteByte(Cur, 1, a, 1)
        IN Commit(r.W, [op |-> "TryWriteByte", addr |-> a, size |-> 1,
                        ok |-> r.ok, val |-> <<1>>])
AccessTryWriteScalar ==
  /\ ~Crashed
  /\ calls < MaxAccessCalls
  /\ \E a \in SMCAddrs :
        LET r == TryWriteScalar(Cur, 1, a, <<1, 2>>)
        IN Commit(r.W, [op |-> "TryWriteScalar", addr |-> a, size |-> 2,
                        ok |-> r.ok, val |-> <<1, 2>>])

NextAccess ==
  \/ AccessAddMap
  \/ AccessAddZeroMap
  \/ AccessAddMapSnapshot
  \/ AccessRemoveMap
  \/ AccessSetPermissions
  \/ AccessKill
  \/ AccessTryRead
  \/ AccessTryReadByte
  \/ AccessTryReadScalar
  \/ AccessTryReadExecutable
  \/ AccessTryWrite
  \/ AccessTryWriteByte
  \/ AccessTryWriteScalar

SpecAccess == InitMaps /\ [][NextAccess]_vars

(***************************************************************************)
(* SpecNoVersion: the calls of SpecSMC with code versioning off, as it is  *)
(* by default.  A write leaves in `ret` what it was called with and what   *)
(* it returned.                                                            *)
(***************************************************************************)
NoVersionTryWriteByte ==
  /\ calls < MaxSMCCalls
  /\ \E a \in SMCAddrs :
        LET r == TryWriteByte(Cur, 1, a, 1)
        IN Commit(r.W, [op |-> "TryWriteByte", addr |-> a, size |-> 1,
                        ok |-> r.ok, val |-> <<1>>])
NoVersionTryWrite ==
  /\ calls < MaxSMCCalls
  /\ \E a \in SMCAddrs, val \in WriteVals :
        LET r == TryWrite(Cur, 1, a, val)
        IN Commit(r.W, [op |-> "TryWrite", addr |-> a, size |-> Len(val),
                        ok |-> r.ok, val |-> val])
NoVersionTryWriteScalar ==
  /\ calls < MaxSMCCalls
  /\ \E a \in SMCAddrs :
        LET r == TryWriteScalar(Cur, 1, a, <<1, 1>>)
        IN Commit(r.W, [op |-> "TryWriteScalar", addr |-> a, size |-> 2,
                        ok |-> r.ok, val |-> <<1, 1>>])

NextNoVersion ==
  \/ SMCAddMap
  \/ SMCSetPermissions
  \/ SMCMarkAsTraceHead
  \/ NoVersionTryWriteByte
  \/ NoVersionTryWrite
  \/ NoVersionTryWriteScalar
  \/ SMCComputeCodeVersion

SpecNoVersion == InitMaps /\ [][NextNoVersion]_vars

(***************************************************************************)
(* SpecHeads: one address space, with code versioning on, whose trace      *)
(* heads are marked while its first two pages are mapped, unmapped,        *)
(* protected, read and written, and which may be killed.  Each call leaves *)
(* in `ret` what it was called with and what it returned.                  *)
(***************************************************************************)
\* (base, size) of the maps added and removed.
HeadsMaps == {<<0, kPageSize>>, <<0, 2 * kPageSize>>}
\* (can_read, can_write, can_exec) of a SetPermissions call.
HeadsPerms == {<<FALSE, FALSE, FALSE>>, <<TRUE, TRUE, FALSE>>,
               <<TRUE, TRUE, TRUE>>}

HeadsAddMap ==
  /\ calls < MaxHeadsCalls
  /\ \E m \in HeadsMaps : \E W \in CreateMap(Cur, 1, m[1], m[2]) :
        Commit(W, [op |-> "AddMap", base |-> m[1], size |-> m[2]])
HeadsRemoveMap ==
  /\ calls < MaxHeadsCalls
  /\ \E m \in HeadsMaps : \E W \in RemoveMap(Cur, 1, m[1], m[2]) :
        Commit(W, [op |-> "RemoveMap", base |-> m[1], size |-> m[2]])
HeadsSetPermissions ==
  /\ calls < MaxHeadsCalls
  /\ \E b \in SMCPages, p \in HeadsPerms :
     \E W \in SetPermissions(Cur, 1, b, kPageSize, p[1], p[2], p[3]) :
        Commit(W, [op |-> "SetPermissions", base |-> b, size |-> kPageSize])
HeadsKill ==
  /\ calls < MaxHeadsCalls
  /\ Commit(Kill(Cur, 1), [op |-> "Kill"])
HeadsMarkAsTraceHead ==
  /\ calls < MaxHeadsCalls
  /\ \E pc \in SMCPages :
        Commit(MarkAsTraceHead(Cur, 1, pc), [op |-> "MarkAsTraceHead",
                                             pc |-> pc])
HeadsTryRead ==
  /\ calls < MaxHeadsCalls
  /\ \E a \in SMCPages :
        LET r == TryRead(Cur, 1, a, 2)
        IN Commit(r.W, [op |-> "TryRead", addr |-> a, size |-> 2,
                        ok |-> r.ok, val |-> r.val])
HeadsTryReadByte ==
  /\ calls < MaxHeadsCalls
  /\ \E a \in SMCPages :
        LET r == TryReadByte(Cur, 1, a)
        IN Commit(r.W, [op |-> "TryReadByte", addr |-> a, size |-> 1,
                        ok |-> r.ok, val |-> r.val])
HeadsTryReadScalar ==
  /\ calls < MaxHeadsCalls
  /\ \E a \in SMCPages :
        LET r == TryReadScalar(Cur, 1, a, 2)
        IN Commit(r.W, [op |-> "TryReadScalar", addr |-> a, size |-> 2,
                        ok |-> r.ok, val |-> r.val])
HeadsTryReadExecutable ==
  /\ calls < MaxHeadsCalls
  /\ \E a \in SMCPages :
        LET r == TryReadExecutable(Cur, 1, a)
        IN Commit(r.W, [op |-> "TryReadExecutable", addr |-> a, size |-> 1,
                        ok |-> r.ok, val |-> r.val])
HeadsTryWrite ==
  /\ calls < MaxHeadsCalls
  /\ \E a \in SMCPages \cup {kPageSize - 1} :
        LET r == TryWrite(Cur, 1, a, <<1, 1>>)
        IN Commit(r.W, [op |-> "TryWrite", addr |-> a, size |-> 2,
                        ok |-> r.ok, val |-> <<1, 1>>])
HeadsTryWriteByte ==
  /\ calls < MaxHeadsCalls
  /\ \E a \in SMCPages :
        LET r == TryWriteByte(Cur, 1, a, 1)
        IN Commit(r.W, [op |-> "TryWriteByte", addr |-> a, size |-> 1,
                        ok |-> r.ok, val |-> <<1>>])
HeadsTryWriteScalar ==
  /\ calls < MaxHeadsCalls
  /\ \E a \in SMCPages \cup {kPageSize - 1} :
        LET r == TryWriteScalar(Cur, 1, a, <<1, 1>>)
        IN Commit(r.W, [op |-> "TryWriteScalar", addr |-> a, size |-> 2,
                        ok |-> r.ok, val |-> <<1, 1>>])

NextHeads ==
  \/ HeadsAddMap
  \/ HeadsRemoveMap
  \/ HeadsSetPermissions
  \/ HeadsKill
  \/ HeadsMarkAsTraceHead
  \/ HeadsTryRead
  \/ HeadsTryReadByte
  \/ HeadsTryReadScalar
  \/ HeadsTryReadExecutable
  \/ HeadsTryWrite
  \/ HeadsTryWriteByte
  \/ HeadsTryWriteScalar

SpecHeads == InitSMC /\ [][NextHeads]_vars

(***************************************************************************)
(* The trace decoder.  The instruction decoder of the architecture is a    *)
(* library: here an instruction is one byte that encodes its category,     *)
(* whether decoding it fails and its branch target.                        *)
(***************************************************************************)
\* arch->MaxInstructionSize().
MaxInstructionSize == 2
\* The number of values of TraceHashBaseType.
TraceHashBase == 16

\* remill::Instruction::Category.
Categories ==
  <<"Normal", "NoOp", "Invalid", "Error", "DirectJump", "IndirectJump",
    "DirectFunctionCall", "IndirectFunctionCall", "FunctionReturn",
    "ConditionalBranch", "AsyncHyperCall", "ConditionalAsyncHyperCall">>

\* The byte of the instruction of a category that branches to `target`;
\* `failed` tells that the decoder rejects it.
Encode(category, failed, target) ==
  LET index == CHOOSE i \in 1..Len(Categories) : Categories[i] = category
  IN (index - 1) * (2 * AddrSpaceSize)
       + (IF failed THEN AddrSpaceSize ELSE 0) + target

\* arch->DecodeInstruction(pc, inst_bytes, inst): whether it succeeded and
\* the instruction it has filled in.  No byte at all cannot be decoded.
DecodeInstruction(pc, inst_bytes) ==
  IF inst_bytes = <<>>
  THEN [ok |-> FALSE,
        inst |-> [pc |-> pc, category |-> "Invalid", next_pc |-> 0,
                  branch_taken_pc |-> 0, branch_not_taken_pc |-> 0,
                  bytes |-> <<>>]]
  ELSE LET byte == inst_bytes[1]
           index == (byte \div (2 * AddrSpaceSize)) % Len(Categories)
       IN [ok |-> (byte \div AddrSpaceSize) % 2 = 0,
           inst |-> [pc |-> pc, category |-> Categories[index + 1],
                     next_pc |-> pc + 1,
                     branch_taken_pc |-> byte % AddrSpaceSize,
                     branch_not_taken_pc |-> pc + 1,
                     bytes |-> <<byte>>]]

\* ReadInstructionBytes: the loop from byte i on; `byte` is what
\* TryReadExecutable has returned for pc + i.
RECURSIVE ReadInstructionBytesFrom(_, _, _, _, _)
ReadInstructionByte(s, pc, i, instr_bytes, byte) ==
  IF ~byte.ok THEN [W |-> byte.W, val |-> instr_bytes]
  ELSE ReadInstructionBytesFrom(byte.W, s, pc, i + 1, instr_bytes \o byte.val)

ReadInstructionBytesFrom(W, s, pc, i, instr_bytes) ==
  IF i >= MaxInstructionSize THEN [W |-> W, val |-> instr_bytes]
  ELSE ReadInstructionByte(s, pc, i, instr_bytes,
                           TryReadExecutable(W, s, pc + i))

ReadInstructionBytes(W, s, pc) == ReadInstructionBytesFrom(W, s, pc, 0, <<>>)

\* A work list that follows the callee of a direct call as well.
AddSuccessorsAndCallees(inst, work_list) ==
  CASE inst.category \in {"Invalid", "Error", "IndirectJump",
                          "FunctionReturn", "AsyncHyperCall"} -> work_list
    [] inst.category = "IndirectFunctionCall" ->
         work_list \cup {inst.branch_not_taken_pc}
    [] inst.category = "DirectFunctionCall" ->
         work_list \cup {inst.branch_not_taken_pc, inst.branch_taken_pc}
    [] inst.category \in {"Normal", "NoOp"} -> work_list \cup {inst.next_pc}
    [] inst.category = "ConditionalAsyncHyperCall" ->
         work_list \cup {inst.branch_not_taken_pc}
    [] inst.category = "DirectJump" -> work_list \cup {inst.branch_taken_pc}
    [] inst.category = "ConditionalBranch" ->
         work_list \cup {inst.branch_taken_pc, inst.next_pc}

\* AddSuccessorsToWorkList: the work list with the successors inserted.
AddSuccessorsToWorkList(inst, work_list) ==
  CASE inst.category \in {"Invalid", "Error", "IndirectJump",
                          "FunctionReturn", "AsyncHyperCall"} -> work_list
    [] inst.category \in {"IndirectFunctionCall", "DirectFunctionCall"} ->
         work_list \cup {inst.branch_not_taken_pc}
    [] inst.category \in {"Normal", "NoOp"} -> work_list \cup {inst.next_pc}
    [] inst.category = "ConditionalAsyncHyperCall" ->
         work_list \cup {inst.branch_not_taken_pc}
    [] inst.category = "DirectJump" -> work_list \cup {inst.branch_taken_pc}
    [] inst.category = "ConditionalBranch" ->
         work_list \cup {inst.branch_taken_pc, inst.next_pc}

\* A trace list that no instruction adds to.
AddNoSuccessorsToTraceList(inst, work_list) == work_list

\* AddSuccessorsToTraceList.
AddSuccessorsToTraceList(inst, work_list) ==
  IF /\ inst.category = "DirectFunctionCall"
     /\ inst.branch_taken_pc # inst.branch_not_taken_pc
  THEN work_list \cup {inst.branch_taken_pc}
  ELSE work_list

\* Hasher<TraceHashBaseType>, which is not among the sources: the digest
\* is modelled as the seed with the bytes the hasher was updated with.
Hasher(seed) == [seed |-> seed % TraceHashBase, data |-> <<>>]
Update(hash, bytes) == [hash EXCEPT !.data = @ \o bytes]
Digest(hash) == hash

\* The loop of HashTraceInstructions over the entries of the instruction
\* map, in the order of their keys.
RECURSIVE UpdateWithInstructions(_, _, _)
UpdateWithInstructions(hash, insts, keys) ==
  IF keys = {} THEN hash
  ELSE LET pc == CHOOSE x \in keys : \A y \in keys : x <= y
       IN UpdateWithInstructions(Update(hash, insts[pc].bytes), insts,
                                 keys \ {pc})

\* A trace id whose hash is seeded with the code version of the trace.
HashTraceWithVersion(trace) ==
  [hash1 |-> trace.pc,
   hash2 |-> Digest(UpdateWithInstructions(Hasher(trace.code_version),
                                           trace.instructions,
                                           DOMAIN trace.instructions))]

\* HashTraceInstructions.
HashTraceInstructions(trace) ==
  LET insts == trace.instructions
      keys == DOMAIN insts
      min_pc == IF keys = {} THEN 1
                ELSE CHOOSE x \in keys : \A y \in keys : x <= y
      max_pc == IF keys = {} THEN 1
                ELSE CHOOSE x \in keys : \A y \in keys : x >= y
      hash2 == Hasher(min_pc * max_pc * Cardinality(keys))
  IN [hash1 |-> trace.pc,
      hash2 |-> Digest(UpdateWithInstructions(hash2, insts, keys))]

\* The least element of a std::set, which begin() points to.
Begin(list) == CHOOSE x \in list : \A y \in list : x <= y

\* DecodeTraces: the intra-trace loop.  It leaves the instruction map of
\* the trace and the trace list.
RECURSIVE DecodeWorkList(_, _, _, _, _)

\* A loop body that leaves an instruction that cannot be decoded out of
\* the instruction map.
AddIfDecoded(W, s, pc, work_list, trace_list, instructions, decoded) ==
  IF ~decoded.ok
  THEN DecodeWorkList(W, s, work_list, trace_list, instructions)
  ELSE DecodeWorkList(W, s, AddSuccessorsToWorkList(decoded.inst, work_list),
                      AddSuccessorsToTraceList(decoded.inst, trace_list),
                      [p \in (DOMAIN instructions) \cup {pc} |->
                         IF p = pc THEN decoded.inst ELSE instructions[p]])

\* The body of the loop once the instruction at pc is decoded: it is put
\* into the instruction map, and its successors are added only if decoding
\* it has succeeded.
AddDecoded(W, s, pc, work_list, trace_list, instructions, decoded) ==
  IF ~decoded.ok
  THEN DecodeWorkList(W, s, work_list, trace_list,
                      [p \in (DOMAIN instructions) \cup {pc} |->
                         IF p = pc THEN decoded.inst ELSE instructions[p]])
  ELSE DecodeWorkList(W, s, AddSuccessorsToWorkList(decoded.inst, work_list),
                      AddSuccessorsToTraceList(decoded.inst, trace_list),
                      [p \in (DOMAIN instructions) \cup {pc} |->
                         IF p = pc THEN decoded.inst ELSE instructions[p]])

\* The body of the loop once the bytes at pc are read.
DecodeBytes(s, pc, work_list, trace_list, instructions, inst_bytes) ==
  AddDecoded(inst_bytes.W, s, pc, work_list, trace_list, instructions,
             DecodeInstruction(pc, inst_bytes.val))

\* The body of the loop for the pc taken off the work list.
DecodeAt(W, s, pc, work_list, trace_list, instructions) ==
  IF pc \in DOMAIN instructions
  THEN DecodeWorkList(W, s, work_list, trace_list, instructions)
  ELSE DecodeBytes(s, pc, work_list, trace_list, instructions,
                   ReadInstructionBytes(W, s, pc))

DecodeWorkList(W, s, work_list, trace_list, instructions) ==
  IF work_list = {}
  THEN [W |-> W, instructions |-> instructions, trace_list |-> trace_list]
  ELSE DecodeAt(W, s, Begin(work_list), work_list \ {Begin(work_list)},
                trace_list, instructions)

\* DecodeTraces: the loop over the trace list, with the traces emitted so
\* far.
RECURSIVE DecodeTraceList(_, _, _, _)

\* The trace with its id.
WithTraceId(trace) ==
  [pc |-> trace.pc, code_version |-> trace.code_version,
   instructions |-> trace.instructions, id |-> HashTraceInstructions(trace)]

\* The end of the body of the loop: `decoded` is what the intra-trace loop
\* has left.
PushTrace(s, trace_pc, code_version, decoded, traces) ==
  DecodeTraceList(decoded.W, s, decoded.trace_list,
                  Append(traces,
                         WithTraceId([pc |-> trace_pc,
                                      code_version |-> code_version,
                                      instructions |-> decoded.instructions])))

\* The body of the loop from the computation of the code version on.
DecodeTrace(s, trace_pc, trace_list, traces, version) ==
  PushTrace(s, trace_pc, version.val,
            DecodeWorkList(version.W, s, {trace_pc}, trace_list,
                           [p \in {} |-> 0]),
            traces)

\* A loop body that skips the PCs this call has emitted a trace for, and
\* does not ask the address space whether the PC is a trace head.
DecodeTraceIgnoringHeads(W, s, trace_pc, trace_list, traces) ==
  IF \E i \in 1..Len(traces) : traces[i].pc = trace_pc
  THEN DecodeTraceList(W, s, trace_list, traces)
  ELSE DecodeTrace(s, trace_pc, trace_list, traces,
                   ComputeCodeVersion(MarkAsTraceHead(W, s, trace_pc),
                                      s, trace_pc))

\* The body of the loop for the pc taken off the trace list.
DecodeTraceAt(W, s, trace_pc, trace_list, traces) ==
  IF IsMarkedTraceHead(W, s, trace_pc)
  THEN DecodeTraceList(W, s, trace_list, traces)
  ELSE DecodeTrace(s, trace_pc, trace_list, traces,
                   ComputeCodeVersion(MarkAsTraceHead(W, s, trace_pc),
                                      s, trace_pc))

DecodeTraceList(W, s, trace_list, traces) ==
  IF trace_list = {} THEN [W |-> W, traces |-> traces]
  ELSE DecodeTraceAt(W, s, Begin(trace_list), trace_list \ {Begin(trace_list)},
                     traces)

\* DecodeTraces(arch, addr_space, start_pc).
DecodeTraces(W, s, start_pc) == DecodeTraceList(W, s, {start_pc}, <<>>)

\* LoadPageRangeFromFile for the page range [base, limit) whose file holds
\* the bytes `file`: the worlds it may leave, each with whether a CHECK has
\* failed.  The bytes are read into the buffer that
\* AddressSpace::ToReadWriteVirtualAddress(base) points to; without a
\* buffer the read fails with bytes left to read.  A buffer that ends
\* before `limit` is overrun: the program crashes or goes on.
ReadFileInto(found, base, limit, file) ==
  LET range == found.W.heap[found.id]
      where == {a \in base..(limit - 1) : Contains(range, a)}
      stored == [W |-> [found.W EXCEPT
                          !.heap = StoreBytes(@, found.id, where, base,
                                              file, 1)],
                 crashed |-> FALSE]
  IN IF Len(file) < limit - base \/ ~CanAccess(range, base % AddrSpaceSize)
     THEN {[W |-> found.W, crashed |-> TRUE]}
     ELSE {[stored EXCEPT !.crashed = c] :
             c \in IF where = base..(limit - 1) THEN {FALSE} ELSE BOOLEAN}

LoadPageRangeFromFile(W, s, base, limit, file) ==
  ReadFileInto(FindRange(W, s, base % AddrSpaceSize), base, limit, file)

\* LoadAddressSpaceFromSnapshot: the loop over the page ranges `pages`
\* from the i-th on.  A page range is a record [base, limit, kind,
\* can_read, can_write, can_exec, file]; its file is a record [exists,
\* bytes].
RECURSIVE LoadPageRanges(_, _, _, _)

\* The body of the loop once AddMap has returned.
LoadPage(added, s, pages, i) ==
  IF added.crashed THEN {added}
  ELSE IF pages[i].kind = "anonymous_zero"
  THEN LoadPageRanges(added.W, s, pages, i + 1)
  ELSE IF ~pages[i].file.exists THEN {[W |-> added.W, crashed |-> TRUE]}
  ELSE UNION {IF loaded.crashed THEN {loaded}
              ELSE LoadPageRanges(loaded.W, s, pages, i + 1) :
                loaded \in LoadPageRangeFromFile(added.W, s, pages[i].base,
                                                 pages[i].limit,
                                                 pages[i].file.bytes)}

LoadPageRanges(W, s, pages, i) ==
  IF i > Len(pages) THEN {[W |-> W, crashed |-> FALSE]}
  ELSE IF pages[i].limit <= pages[i].base
  THEN {[W |-> W, crashed |-> TRUE]}
  ELSE UNION {LoadPage(added, s, pages, i) :
                added \in AddMapSnapshot(W, s, pages[i].base, pages[i].limit,
                                         pages[i].kind = "heap",
                                         pages[i].can_read,
                                         pages[i].can_write,
                                         pages[i].can_exec)}

(***************************************************************************)
(* SpecDecode: machine code is loaded into two pages of one address space  *)
(* and decoded into traces; bytes of the code may be overwritten.          *)
(***************************************************************************)
MaxDecodeCalls == 3

\* The addresses of the code, the instructions it is made of and the
\* targets of its branches.
CodeLimit == 2 * kPageSize
CodeAddrs == 0..(CodeLimit - 1)
BranchTargets == {0, kPageSize}
Opcodes ==
  {Encode(Categories[i], FALSE, 0) : i \in 1..Len(Categories)}
    \cup {Encode(c, FALSE, t) :
            c \in {"DirectJump", "ConditionalBranch", "DirectFunctionCall"},
            t \in BranchTargets}
    \cup {Encode("Normal", TRUE, 0), Encode("Invalid", TRUE, 0)}
\* The files of code: three instructions, and zero bytes up to the limit.
CodeFiles ==
  {[i \in 1..CodeLimit |-> IF i <= 3 THEN code[i] ELSE 0] :
     code \in [1..3 -> Opcodes]}
\* The bytes that overwrite code, and where.
PatchBytes == {Encode("FunctionReturn", FALSE, 0)}
PatchAddrs == {0, CodeLimit - 1}
\* Where decoding starts: at each byte of the code, and at the first byte
\* after it, which is not mapped.
StartPCs == CodeAddrs \cup {CodeLimit}

\* The address space has been loaded from a snapshot before anything runs.
DecodeLoadPageRanges ==
  /\ calls = 0
  /\ \E file \in CodeFiles :
     \E r \in LoadPageRanges(
                Cur, 1,
                <<[base |-> 0, limit |-> CodeLimit, kind |-> "anonymous",
                   can_read |-> TRUE, can_write |-> TRUE, can_exec |-> TRUE,
                   file |-> [exists |-> TRUE, bytes |-> file]]>>, 1) :
        Commit(r.W, IF r.crashed THEN [op |-> "crash"]
                    ELSE [op |-> "LoadPageRanges", file |-> file])
DecodeTryWriteByte ==
  /\ ~Crashed
  /\ 0 < calls /\ calls < MaxDecodeCalls
  /\ \E a \in PatchAddrs, b \in PatchBytes :
        LET r == TryWriteByte(Cur, 1, a, b)
        IN Commit(r.W, [op |-> "TryWriteByte", addr |-> a, ok |-> r.ok,
                        val |-> <<b>>])
DecodeDecodeTraces ==
  /\ ~Crashed
  /\ 0 < calls /\ calls < MaxDecodeCalls
  /\ \E pc \in StartPCs :
        LET r == DecodeTraces(Cur, 1, pc)
        IN Commit(r.W, [op |-> "DecodeTraces", start_pc |-> pc,
                        traces |-> r.traces,
                        was_trace_heads |-> spaces[1].trace_heads])

NextDecode == DecodeLoadPageRanges \/ DecodeTryWriteByte \/ DecodeDecodeTraces

SpecDecode == InitSMC /\ [][NextDecode]_vars

(***************************************************************************)
(* SpecDecodeSteps: one DecodeTraces, loop iteration by loop iteration,    *)
(* over code with jumps and calls back into itself.  `decoder` holds the   *)
(* locals of the call; `decoded` lists the PCs decoded for the trace under *)
(* way and `started` the PCs a trace was begun for.                        *)
(***************************************************************************)
\* The instructions of the code: fall through, return, a failing decode,
\* and jumps, branches and calls to the first byte of either page.
LoopOpcodes ==
  {Encode("NoOp", FALSE, 0), Encode("FunctionReturn", FALSE, 0),
   Encode("Normal", TRUE, 0)}
    \cup {Encode(c, FALSE, t) :
            c \in {"DirectJump", "ConditionalBranch", "DirectFunctionCall"},
            t \in BranchTargets}
LoopFiles ==
  {[i \in 1..CodeLimit |-> IF i <= 3 THEN code[i] ELSE 0] :
     code \in [1..3 -> LoopOpcodes]}

\* A step of DecodeTraces that leaves world W and the locals d, and
\* returns r if it returns.
DecoderStep(W, d, r) ==
  LET C == Collect(W)
  IN /\ heap' = C.heap
     /\ spaces' = C.spaces
     /\ next_token' = C.next_token
     /\ ret' = r
     /\ decoder' = d
     /\ UNCHANGED <<version_code, calls, executor, runtime>>

\* A test that takes no PC for decoded.
NeverDecoded(instructions, pc) == FALSE

\* trace.instructions.count(pc): the trace holds an instruction at pc.
AlreadyDecoded(instructions, pc) == pc \in DOMAIN instructions

\* The locals once the instruction at pc is decoded.
WithDecoded(d, pc, decoded) ==
  [d EXCEPT
     !.trace.instructions =
        [p \in (DOMAIN @) \cup {pc} |-> IF p = pc THEN decoded.inst ELSE @[p]],
     !.decoded = Append(@, pc),
     !.work_list = IF decoded.ok
                   THEN AddSuccessorsToWorkList(decoded.inst, @) ELSE @,
     !.trace_list = IF decoded.ok
                    THEN AddSuccessorsToTraceList(decoded.inst, @) ELSE @]

\* The locals once the trace at trace_pc is begun, with its code version.
WithTrace(d, trace_pc, code_version) ==
  [d EXCEPT
     !.position = "work_list",
     !.check_failed = @ \/ d.work_list # {},
     !.work_list = @ \cup {trace_pc},
     !.trace = [pc |-> trace_pc, code_version |-> code_version,
                instructions |-> [p \in {} |-> 0]],
     !.decoded = <<>>,
     !.started = Append(@, trace_pc)]

StepsLoadPageRanges ==
  /\ calls = 0
  /\ \E file \in LoopFiles :
     \E r \in LoadPageRanges(
                Cur, 1,
                <<[base |-> 0, limit |-> CodeLimit, kind |-> "anonymous",
                   can_read |-> TRUE, can_write |-> TRUE, can_exec |-> TRUE,
                   file |-> [exists |-> TRUE, bytes |-> file]]>>, 1) :
        Commit(r.W, IF r.crashed THEN [op |-> "crash"]
                    ELSE [op |-> "LoadPageRanges", file |-> file])

\* DecodeTraces is called: the start PC is put on the trace list.
StepsDecodeTraces ==
  /\ ~Crashed
  /\ calls > 0
  /\ decoder.position = "idle"
  /\ \E pc \in StartPCs :
        DecoderStep(Cur, [NoDecoder EXCEPT
                            !.position = "trace_list",
                            !.start_pc = pc,
                            !.was_trace_heads = spaces[1].trace_heads,
                            !.trace_list = {pc}],
                    [op |-> "DecodeTracesBegin"])

\* An iteration of the outer loop up to the inner loop.
StepsTraceList ==
  /\ decoder.position = "trace_list"
  /\ decoder.trace_list # {}
  /\ LET trace_pc == Begin(decoder.trace_list)
         d == [decoder EXCEPT !.trace_list = @ \ {trace_pc}]
         version == ComputeCodeVersion(MarkAsTraceHead(Cur, 1, trace_pc),
                                       1, trace_pc)
     IN IF IsMarkedTraceHead(Cur, 1, trace_pc)
        THEN DecoderStep(Cur, d, ret)
        ELSE DecoderStep(version.W, WithTrace(d, trace_pc, version.val), ret)

\* An iteration of the inner loop.
StepsWorkList ==
  /\ decoder.position = "work_list"
  /\ decoder.work_list # {}
  /\ LET pc == Begin(decoder.work_list)
         d == [decoder EXCEPT !.work_list = @ \ {pc}]
         inst_bytes == ReadInstructionBytes(Cur, 1, pc)
     IN IF AlreadyDecoded(decoder.trace.instructions, pc)
        THEN DecoderStep(Cur, d, ret)
        ELSE DecoderStep(inst_bytes.W,
                         WithDecoded(d, pc,
                                     DecodeInstruction(pc, inst_bytes.val)),
                         ret)

\* The end of an iteration of the outer loop: the trace is hashed and
\* pushed.
StepsPushTrace ==
  /\ decoder.position = "work_list"
  /\ decoder.work_list = {}
  /\ DecoderStep(Cur, [decoder EXCEPT
                         !.position = "trace_list",
                         !.traces = Append(@, WithTraceId(decoder.trace))],
                 ret)

\* DecodeTraces returns.
StepsReturn ==
  /\ decoder.position = "trace_list"
  /\ decoder.trace_list = {}
  /\ DecoderStep(Cur, [decoder EXCEPT !.position = "returned"],
                 [op |-> "DecodeTraces", start_pc |-> decoder.start_pc,
                  traces |-> decoder.traces,
                  was_trace_heads |-> decoder.was_trace_heads])

NextDecodeSteps ==
  \/ StepsLoadPageRanges
  \/ StepsDecodeTraces
  \/ StepsTraceList
  \/ StepsWorkList
  \/ StepsPushTrace
  \/ StepsReturn

\* An iteration of a loop of DecodeTraces, or its return.
DecoderRuns ==
  StepsTraceList \/ StepsWorkList \/ StepsPushTrace \/ StepsReturn

\* DecodeTraces is inside one of its loops: then, and only then, one of the
\* steps of DecoderRuns can be taken, and it changes `decoder`.
InDecodeTraces == decoder.position \in {"trace_list", "work_list"}

\* A DecodeTraces that was called goes on, since nothing stops the thread
\* in it: weak fairness of DecoderRuns, with InDecodeTraces for its
\* enabledness.
SpecDecodeSteps ==
  /\ InitSMC
  /\ [][NextDecodeSteps]_vars
  /\ []<>(~InDecodeTraces) \/ []<><<DecoderRuns>>_vars

(***************************************************************************)
(* The workspace loads a snapshot into the executor, and the executor     *)
(* runs.  Executor.cpp is not among the sources: the operations of the     *)
(* executor are modelled from the specification of the executor dispatch.  *)
(***************************************************************************)
\* The entry of `live_traces` for a task no translation matches: the
\* error intrinsic.
kErrorIntrinsic == 0

\* Executor::AddInitialTask.
AddInitialTask(e, pc, memory) ==
  [e EXCEPT !.initial_tasks = Append(@, [pc |-> pc, memory |-> memory])]

\* The AddressSpace object std::make_shared constructs next.
NewObject(W) == CHOOSE s \in Spaces :
                  /\ ~W.spaces[s].live
                  /\ \A t \in Spaces : ~W.spaces[t].live => s <= t

\* An address space that is deserialized again is deserialized into a new
\* object.
NeverDeserialized(addr_space_ids, id) == FALSE

\* addr_space_ids.count(id).
AlreadyDeserialized(addr_space_ids, id) == id \in DOMAIN addr_space_ids

\* LoadAddressSpaceFromSnapshot: the outcomes [W, ids, crashed], for the
\* address space `orig` of the snapshot; `ids` is addr_space_ids.
LoadAddressSpaceFromSnapshot(W, addr_space_ids, orig) ==
  LET emu == NewObject(W)
      ids == [id \in (DOMAIN addr_space_ids) \cup {orig.id} |->
                IF id = orig.id THEN emu ELSE addr_space_ids[id]]
      created == IF orig.has_parent_id
                 THEN CloneSpace(W, addr_space_ids[orig.parent_id], emu)
                 ELSE {[W EXCEPT !.spaces[emu] = NewSpace]}
  IN IF \/ AlreadyDeserialized(addr_space_ids, orig.id)
        \/ orig.has_parent_id /\ orig.parent_id \notin DOMAIN addr_space_ids
     THEN {[W |-> W, ids |-> addr_space_ids, crashed |-> TRUE]}
     ELSE UNION {{[W |-> r.W, ids |-> ids, crashed |-> r.crashed] :
                    r \in LoadPageRanges(W1, emu, orig.page_ranges, 1)} :
                 W1 \in created}

\* Workspace::LoadSnapshotIntoExecutor: the loop over the address spaces
\* from the i-th on.
RECURSIVE LoadAddressSpaces(_, _, _, _)
LoadAddressSpaces(W, addr_space_ids, address_spaces, i) ==
  IF i > Len(address_spaces)
  THEN {[W |-> W, ids |-> addr_space_ids, crashed |-> FALSE]}
  ELSE UNION {IF r.crashed THEN {r}
              ELSE LoadAddressSpaces(r.W, r.ids, address_spaces, i + 1) :
                r \in LoadAddressSpaceFromSnapshot(W, addr_space_ids,
                                                   address_spaces[i])}

\* The object of the address space with the least id, whatever the task
\* names.
MemoryOfLeastId(address_space_ids, task) ==
  address_space_ids[CHOOSE id \in DOMAIN address_space_ids :
                      \A other \in DOMAIN address_space_ids : id <= other]

\* address_space_ids[addr_space_id]: the object the task gets as memory.
MemoryOfTask(address_space_ids, task) ==
  address_space_ids[task.address_space_id]

\* Workspace::LoadSnapshotIntoExecutor: the loop over the tasks from the
\* i-th on.
RECURSIVE LoadTasks(_, _, _, _)
LoadTasks(e, address_space_ids, tasks, i) ==
  IF i > Len(tasks) THEN [executor |-> e, crashed |-> FALSE]
  ELSE IF tasks[i].address_space_id \notin DOMAIN address_space_ids
  THEN [executor |-> e, crashed |-> TRUE]
  ELSE LoadTasks(AddInitialTask(e, tasks[i].pc,
                                MemoryOfTask(address_space_ids, tasks[i])),
                 address_space_ids, tasks, i + 1)

\* Workspace::LoadSnapshotIntoExecutor: the outcomes [W, executor, ids,
\* crashed].
LoadSnapshotIntoExecutor(W, e, snapshot) ==
  {IF r.crashed
   THEN [W |-> r.W, executor |-> e, ids |-> r.ids, crashed |-> TRUE]
   ELSE [W |-> r.W, ids |-> r.ids,
         executor |-> LoadTasks(e, r.ids, snapshot.tasks, 1).executor,
         crashed |-> LoadTasks(e, r.ids, snapshot.tasks, 1).crashed] :
     r \in LoadAddressSpaces(W, [id \in {} |-> 0],
                             snapshot.address_spaces, 1)}

\* Executor::DecodeTracesFromTask: the traces are lifted and compiled, and
\* every one is installed in the live traces under its entry PC and code
\* version.  A function pointer is modelled as the number of the function.
RECURSIVE InstallTraces(_, _, _)
InstallTraces(live_traces, traces, i) ==
  IF i > Len(traces) THEN live_traces
  ELSE LET key == <<traces[i].pc, traces[i].code_version>>
           fn == Cardinality(DOMAIN live_traces) + 1
       IN InstallTraces([k \in (DOMAIN live_traces) \cup {key} |->
                           IF k = key THEN fn ELSE live_traces[k]],
                        traces, i + 1)

\* FindLiftedFunctionForTask once the traces of a miss are decoded.
FindAfterDecode(e, key, decoded) ==
  LET live == InstallTraces(e.live_traces, decoded.traces, 1)
  IN [W |-> decoded.W,
      executor |-> [e EXCEPT !.live_traces = live],
      fn |-> IF key \in DOMAIN live THEN live[key] ELSE kErrorIntrinsic]

\* FindLiftedFunctionForTask once the code version of the task's PC is
\* computed.
FindWithVersion(e, task, version) ==
  IF <<task.pc, version.val>> \in DOMAIN e.live_traces
  THEN [W |-> version.W, executor |-> e,
        fn |-> e.live_traces[<<task.pc, version.val>>]]
  ELSE FindAfterDecode(e, <<task.pc, version.val>>,
                       DecodeTraces(version.W, task.memory, task.pc))

\* Executor::FindLiftedFunctionForTask.
FindLiftedFunctionForTask(W, e, task) ==
  FindWithVersion(e, task, ComputeCodeVersion(W, task.memory, task.pc))

\* Whether the runtime may ask for the lifted function of a task as soon
\* as Run has been called.
Running(e) == e.position \notin {"constructed", "finished"}

\* Whether the runtime is inside __vmill_resume, where it asks for the
\* lifted functions of its tasks.
Resumed(e) == e.position = "resumed"

(***************************************************************************)
(* SpecExecutor: a snapshot is loaded into the executor, which then runs   *)
(* until every task has been dispatched once.                              *)
(***************************************************************************)
\* The ids of the address spaces of a snapshot.
SnapshotIds == {7, 8}
\* The code of a snapshot: a call of the second page, and returns.
SnapshotCode ==
  [i \in 1..CodeLimit |->
     IF i = 1 THEN Encode("DirectFunctionCall", FALSE, kPageSize)
     ELSE Encode("FunctionReturn", FALSE, 0)]
CodePage(kind, limit, file) ==
  [base |-> 0, limit |-> limit, kind |-> kind, can_read |-> TRUE,
   can_write |-> FALSE, can_exec |-> TRUE, file |-> file]
\* The lists of page ranges of an address space: none; code with its file;
\* a range that ends where it begins; code whose file is missing; code
\* whose file is too small; zero pages, which have no file.
PageRangeLists ==
  {<<>>,
   <<CodePage("anonymous", CodeLimit, [exists |-> TRUE, bytes |-> SnapshotCode])>>,
   <<CodePage("anonymous", 0, [exists |-> TRUE, bytes |-> SnapshotCode])>>,
   <<CodePage("anonymous", CodeLimit, [exists |-> FALSE, bytes |-> <<>>])>>,
   <<CodePage("anonymous", CodeLimit, [exists |-> TRUE, bytes |-> <<0>>])>>,
   <<CodePage("anonymous_zero", CodeLimit, [exists |-> FALSE, bytes |-> <<>>])>>}
SnapshotAddressSpaces ==
  {[id |-> id, has_parent_id |-> has, parent_id |-> parent,
    page_ranges |-> pages] :
     id \in SnapshotIds, has \in BOOLEAN, parent \in SnapshotIds,
     pages \in PageRangeLists}
SnapshotTasks == {[pc |-> 0, address_space_id |-> id] : id \in SnapshotIds}
Snapshots ==
  {[address_spaces |-> a, tasks |-> t] :
     a \in UNION {[1..n -> SnapshotAddressSpaces] : n \in 1..NumSpaces},
     t \in UNION {[1..n -> SnapshotTasks] : n \in 0..2}}

\* No address space exists before the snapshot is loaded.
InitExecutor ==
  /\ heap = [i \in {kInvalid} |-> CreateInvalid(0, addr_mask)]
  /\ spaces = [s \in Spaces |-> NoSpace]
  /\ next_token = 1
  /\ version_code = TRUE
  /\ ret = Void
  /\ calls = 0
  /\ executor = NewExecutor
  /\ decoder = NoDecoder
  /\ runtime = NoRuntime

ExecLoadSnapshot ==
  /\ calls = 0
  /\ \E snapshot \in Snapshots :
     \E r \in LoadSnapshotIntoExecutor(Cur, executor, snapshot) :
        CommitWith(r.W,
                   [op |-> IF r.crashed THEN "crash"
                           ELSE "LoadSnapshotIntoExecutor",
                    snapshot |-> snapshot, ids |-> r.ids],
                   r.executor)
\* Executor::Run calls __vmill_init.
ExecRunInit ==
  /\ ~Crashed
  /\ calls > 0
  /\ executor.position = "constructed"
  /\ CommitWith(Cur, Void,
                [executor EXCEPT
                   !.position = "init",
                   !.log = Append(@, [fn |-> "__vmill_init"])])
\* Executor::Run calls __vmill_create_task for the next initial task.
ExecRunCreateTask ==
  /\ executor.position = "init"
  /\ Len(executor.tasks) < Len(executor.initial_tasks)
  /\ LET info == executor.initial_tasks[Len(executor.tasks) + 1]
     IN CommitWith(Cur, Void,
                   [executor EXCEPT
                      !.tasks = Append(@, [pc |-> info.pc,
                                           memory |-> info.memory,
                                           fn |-> kNull]),
                      !.log = Append(@, [fn |-> "__vmill_create_task",
                                         pc |-> info.pc,
                                         memory |-> info.memory])])
\* Executor::Run calls __vmill_resume.
ExecRunResume ==
  /\ executor.position = "init"
  /\ Len(executor.tasks) = Len(executor.initial_tasks)
  /\ CommitWith(Cur, Void,
                [executor EXCEPT
                   !.position = "resumed",
                   !.log = Append(@, [fn |-> "__vmill_resume"])])
\* The runtime asks for the lifted function of a task it has not run yet.
ExecFindLiftedFunctionForTask ==
  /\ Resumed(executor)
  /\ \E i \in 1..Len(executor.tasks) :
        /\ executor.tasks[i].fn = kNull
        /\ LET r == FindLiftedFunctionForTask(Cur, executor,
                                              executor.tasks[i])
               key == <<executor.tasks[i].pc,
                        ComputeCodeVersion(Cur, executor.tasks[i].memory,
                                           executor.tasks[i].pc).val>>
           IN CommitWith(
                r.W,
                [op |-> "FindLiftedFunctionForTask", task |-> i,
                 key |-> key, fn |-> r.fn],
                [r.executor EXCEPT
                   !.tasks[i].fn = r.fn,
                   !.log = Append(@, [fn |-> "find_lifted_function_for_task",
                                      task |-> i, key |-> key,
                                      lifted |-> r.fn])])
\* __vmill_resume returns when every task was run, and Executor::Run calls
\* __vmill_fini.
ExecRunFini ==
  /\ executor.position = "resumed"
  /\ \A i \in 1..Len(executor.tasks) : executor.tasks[i].fn # kNull
  /\ CommitWith(Cur, Void,
                [executor EXCEPT
                   !.position = "finished",
                   !.log = Append(@, [fn |-> "__vmill_fini"])])

NextExecutor ==
  \/ ExecLoadSnapshot
  \/ ExecRunInit
  \/ ExecRunCreateTask
  \/ ExecRunResume
  \/ ExecFindLiftedFunctionForTask
  \/ ExecRunFini

SpecExecutor == InitExecutor /\ [][NextExecutor]_vars

(***************************************************************************)
(* Properties of the address space.                                        *)
(***************************************************************************)
\* The ranges of address space s, in the order of its `maps`.
RangesOf(h, sp, s) == [i \in 1..Len(sp[s].maps) |-> h[sp[s].maps[i]]]

\* Some valid range of address space s contains addr.
InValidRange(h, sp, s, addr) ==
  \E i \in 1..Len(sp[s].maps) :
     IsValid(h[sp[s].maps[i]]) /\ Contains(h[sp[s].maps[i]], addr)

\* C1: after any sequence of add_map, remove_map and set_permissions on a
\* live address space, its ranges are pairwise disjoint, every range has
\* base <= limit, and the ranges are in ascending order of base address.
C1_RangesDisjointSorted ==
  \A s \in Spaces :
     (Live(s) /\ ~spaces[s].is_dead) =>
        LET R == RangesOf(heap, spaces, s)
        IN /\ \A i \in DOMAIN R : R[i].base <= R[i].limit
           /\ \A i, j \in DOMAIN R :
                 i < j => /\ R[i].base <= R[j].base
                          /\ ~\E a \in Addrs :
                                Contains(R[i], a) /\ Contains(R[j], a)

\* The region [base, limit) a call of add_map or remove_map names.
RegionBase(base_) == AlignDownToPage(base_)
RegionLimit(base_, size) ==
  Min(AlignDownToPage(base_) + RoundUpToPage(size), addr_mask)

\* Every address of a map of address space 1 that lies outside the region is
\* covered, after the step, by a range of the validity of that map.
FrameOutside(base_, size) ==
  \A i \in 1..Len(spaces[1].maps) :
     LET M == heap[spaces[1].maps[i]]
     IN \A a \in Addrs :
           (/\ Contains(M, a)
            /\ ~(RegionBase(base_) <= a /\ a < RegionLimit(base_, size)))
           => \E j \in 1..Len(spaces'[1].maps) :
                 LET N == heap'[spaces'[1].maps[j]]
                 IN Contains(N, a) /\ IsValid(N) = IsValid(M)

\* C2: add_map(b, size) and remove_map(b, size) only affect the region
\* [b, l): every address of a pre-existing map M outside [b, l) is still
\* covered after the call by a range of the same validity as M.
C2_MapsOutsideRegionKept ==
  [][\A b \in BaseInputs, n \in SizeInputs :
        (/\ AddMapCall(1, b, n) \/ RemoveMapCall(1, b, n)
         /\ ~spaces[1].is_dead)
        => FrameOutside(b, n)]_vars

\* C3: in every reachable state of a live address space, is_mapped(addr) is
\* true exactly for the addresses inside a valid range, whatever permissions
\* the page has.
C3_IsMappedIffInValidRange ==
  \A s \in Spaces :
     (Live(s) /\ ~spaces[s].is_dead) =>
        \A a \in Addrs : IsMapped(Cur, s, a) <=> InValidRange(heap, spaces, s, a)

\* C4: in every reachable state, can_read(addr), can_write(addr) or
\* can_execute(addr) being true implies is_mapped(addr).
C4_PermissionImpliesMapped ==
  \A s \in Spaces :
     Live(s) =>
        \A a \in Addrs :
           (CanRead(spaces[s], a) \/ CanWrite(spaces[s], a)
              \/ CanExecute(spaces[s], a)) => IsMapped(Cur, s, a)

\* The pages the n bytes at addr lie on.
PagesOf(addr, n) == {AlignDownToPage(a) : a \in addr..(addr + n - 1)}

\* The step is a try_write of the bytes val at addr in address space s,
\* through one of the overloads, and the call returns true.
SuccessfulWrite(s, addr, val) ==
  \/ /\ Len(val) = 1
     /\ TryWriteByte(Cur, s, addr, val[1]).ok
     /\ TryWriteByteCall(s, addr, val[1])
  \/ /\ TryWrite(Cur, s, addr, val).ok
     /\ TryWriteCall(s, addr, val)
  \/ /\ Len(val) > 1
     /\ TryWriteScalar(Cur, s, addr, val).ok
     /\ TryWriteScalarCall(s, addr, val)

\* C5: with code versioning on, a successful try_write (any overload) to a
\* page P that is executable at the time of the write makes
\* compute_code_version(pc), pc in P, return a token different from the one
\* it returned before the write, whatever was written to other pages of the
\* range before.
C5_WriteToExecutableFreshVersion ==
  [][\A a \in SMCAddrs, val \in WriteVals :
        SuccessfulWrite(1, a, val) =>
           \A P \in PagesOf(a, Len(val)) :
              CanExecuteAligned(spaces[1], P) =>
                 ComputeCodeVersion(Cur', 1, P).val
                    # ComputeCodeVersion(Cur, 1, P).val]_vars

\* C6: with code versioning on, right after a successful try_write (any
\* overload) that touches an executable page the trace-head set of the
\* address space is empty.
C6_WriteToExecutableClearsTraceHeads ==
  [][\A a \in SMCAddrs, val \in WriteVals :
        (/\ SuccessfulWrite(1, a, val)
         /\ \E P \in PagesOf(a, Len(val)) : CanExecuteAligned(spaces[1], P))
        => \A pc \in Addrs : ~IsMarkedTraceHead(Cur', 1, pc)]_vars

\* What try_read(a) returns in address space s of world W.
ReadResult(W, s, a) ==
  LET r == TryReadByte(W, s, a) IN [ok |-> r.ok, val |-> r.val]

\* C7: right after address space 1 is cloned into address space 2, try_read
\* of every address returns the same success flag and the same byte in both.
C7_CloneReadsAsParent ==
  [][CloneCall(1, 2) =>
        \A a \in Addrs : ReadResult(Cur', 1, a) = ReadResult(Cur', 2, a)]_vars

\* What the parent shows of address a: the result of try_read, is_mapped
\* and its permissions.
ParentView(W, a) ==
  [read |-> ReadResult(W, 1, a),
   mapped |-> IsMapped(W, 1, a),
   perms |-> <<CanRead(W.spaces[1], a), CanWrite(W.spaces[1], a),
               CanExecute(W.spaces[1], a)>>]

\* A call on the clone.
ChildStep ==
  \/ ChildTryWriteByte
  \/ ChildTryWrite
  \/ ChildTryWriteScalar
  \/ ChildAddMap
  \/ ChildRemoveMap
  \/ ChildSetPermissions

\* C8: after a clone, a try_write, add_map, remove_map or set_permissions on
\* the child leaves parent.try_read(a), parent.is_mapped(a) and the parent's
\* permissions as they were, for every address a.
C8_ChildLeavesParentUnchanged ==
  [][ChildStep => \A a \in Addrs : ParentView(Cur', a) = ParentView(Cur, a)]_vars

\* The child has written a byte that the parent still reads as it was.
C8_Witness ==
  /\ Live(2)
  /\ \E a \in Addrs :
        /\ ReadResult(Cur, 2, a) = [ok |-> TRUE, val |-> <<1>>]
        /\ ReadResult(Cur, 1, a) = [ok |-> TRUE, val |-> <<0>>]

\* C9: with code versioning on, after a byte is written to an executable page
\* of the clone at pc, compute_code_version(pc) of the parent differs from
\* that of the clone, the parent's trace heads are what they were and the
\* clone has no trace head.
C9_CloneWriteSplitsVersions ==
  [][\A pc \in SMCPages :
        (/\ CanExecute(spaces[2], pc)
         /\ TryWriteByte(Cur, 2, pc, 1).ok
         /\ TryWriteByteCall(2, pc, 1))
        => /\ ComputeCodeVersion(Cur', 1, pc).val
                 # ComputeCodeVersion(Cur', 2, pc).val
           /\ spaces'[1].trace_heads = spaces[1].trace_heads
           /\ spaces'[2].trace_heads = {}]_vars

\* C10: when find_hole(min, max, size) succeeds with h, for the arguments
\* the caller gave: h + size <= max, h >= min, and no address of
\* [h, h + size) is mapped.
C10_HoleWithinBoundsAndUnmapped ==
  (ret.op = "FindHole" /\ ret.status = "ok") =>
     /\ ret.hole + ret.size <= ret.max
     /\ ret.hole >= ret.min
     /\ \A a \in ret.hole..(ret.hole + ret.size - 1) :
           ~IsMapped(Cur, ret.space, a)

\* The page-aligned addresses h with min <= h and h + size <= max such that
\* no valid range of address space s intersects [h, h + size).
FittingHoles(W, s, min_, max_, size_) ==
  {h \in PageAddrs :
     /\ min_ <= h
     /\ h + size_ <= max_
     /\ \A a \in h..(h + size_ - 1) : ~InValidRange(W.heap, W.spaces, s, a)}

\* C11: find_hole(min, max, size) succeeds whenever some page-aligned h with
\* min <= h, h + size <= max and no valid range intersecting [h, h + size)
\* exists, and it then returns the greatest such h, also when the free
\* region is made of several adjacent tombstones.  (Stated for page-aligned
\* min and for max within the address mask.)
C11_FindsGreatestFittingHole ==
  (/\ ret.op = "FindHole"
   /\ ret.status # "abort"
   /\ ret.min % kPageSize = 0
   /\ ret.max <= addr_mask
   /\ FittingHoles(Cur, ret.space, ret.min, ret.max, ret.size) # {}) =>
     /\ ret.status = "ok"
     /\ \A h \in FittingHoles(Cur, ret.space, ret.min, ret.max, ret.size) :
           h <= ret.hole
     /\ ret.hole \in FittingHoles(Cur, ret.space, ret.min, ret.max, ret.size)

\* Some byte of [addr, addr + size) lies on a page of address space s that is
\* in no valid range or is not in the readable set.
TouchesUnreadable(W, s, addr, size) ==
  \E a \in addr..(addr + size - 1) :
     \/ ~InValidRange(W.heap, W.spaces, s, a)
     \/ ~CanRead(W.spaces[s], a)

\* C12: try_read is permission-checked: the buffer, byte and typed-scalar
\* overloads all return false when a byte they access lies on a page that is
\* unmapped or not in the readable set.
C12_ReadUnreadableFails ==
  \A a \in Addrs, n \in {1, 2} :
     (a + n - 1 <= addr_mask /\ TouchesUnreadable(Cur, 1, a, n)) =>
        /\ ~TryRead(Cur, 1, a, n).ok
        /\ ~TryReadScalar(Cur, 1, a, n).ok
        /\ n = 1 => ~TryReadByte(Cur, 1, a).ok

\* Some byte of [addr, addr + size) lies on a page of address space s that is
\* in no valid range or is not in the writable set.
TouchesUnwritable(W, s, addr, size) ==
  \E a \in addr..(addr + size - 1) :
     \/ ~InValidRange(W.heap, W.spaces, s, a)
     \/ ~CanWrite(W.spaces[s], a)

\* C13: try_write is permission-checked: the buffer, byte and typed-scalar
\* overloads all return false when a byte they would write lies on a page
\* that is unmapped or not in the writable set, in every reachable state;
\* in particular a 2-byte write at the last byte of the last mapped page
\* fails.  (Stated for an address space that has not been killed.)
C13_WriteUnwritableFails ==
  \A a \in Addrs, val \in {<<1>>, <<1, 2>>} :
     (/\ ~IsDead(Cur, 1)
      /\ a + Len(val) - 1 <= addr_mask
      /\ TouchesUnwritable(Cur, 1, a, Len(val))) =>
        /\ ~TryWrite(Cur, 1, a, val).ok
        /\ ~TryWriteScalar(Cur, 1, a, val).ok
        /\ Len(val) = 1 => ~TryWriteByte(Cur, 1, a, val[1]).ok

\* The only valid range of address space s is the one page [p, p + kPageSize),
\* which is readable and writable and not the last page of the address space.
OnlyMapIsRWPage(W, s, p) ==
  LET sp == W.spaces[s]
      valid == {i \in 1..Len(sp.maps) : IsValid(W.heap[sp.maps[i]])}
  IN /\ Cardinality(valid) = 1
     /\ \A i \in valid : /\ BaseAddress(W.heap[sp.maps[i]]) = p
                         /\ LimitAddress(W.heap[sp.maps[i]]) = p + kPageSize
     /\ CanRead(sp, p)
     /\ CanWrite(sp, p)
     /\ p + kPageSize < addr_mask

\* C14: in an address space whose only map is one readable and writable
\* page, a typed write of a scalar that starts inside the page and ends
\* beyond its limit returns false, having stored the bytes that lie inside
\* the page, and a typed read of the same scalar returns false as well; a
\* scalar that ends inside the page is written and read back.
C14_ScalarAcrossLimitFails ==
  \A p \in PageAddrs :
     OnlyMapIsRWPage(Cur, 1, p) =>
        LET addr == p + kPageSize - 1
            w == TryWriteScalar(Cur, 1, addr, <<1, 2>>)
            inside == TryWriteScalar(Cur, 1, p, <<1, 2>>)
        IN /\ ~w.ok
           /\ TryReadByte(w.W, 1, addr).val = <<1>>
           /\ ~TryReadScalar(w.W, 1, addr, 2).ok
           /\ inside.ok
           /\ TryReadScalar(inside.W, 1, p, 2).ok
           /\ TryReadScalar(inside.W, 1, p, 2).val = <<1, 2>>

\* C14 as stated: the typed write across the limit of the page succeeds and
\* the typed read then returns the value written.
C14_ScalarAcrossLimitSucceeds ==
  \A p \in PageAddrs :
     OnlyMapIsRWPage(Cur, 1, p) =>
        LET addr == p + kPageSize - 1
            w == TryWriteScalar(Cur, 1, addr, <<1, 2>>)
            r == TryReadScalar(w.W, 1, addr, 2)
        IN w.ok /\ r.ok /\ r.val = <<1, 2>>

\* The typed write across the limit of the only page has been made and has
\* returned false.
C14_Witness ==
  /\ ret.op = "TryWriteScalar"
  /\ ~ret.ok
  /\ \E p \in PageAddrs : /\ OnlyMapIsRWPage(Cur, 1, p)
                          /\ ret.addr = p + kPageSize - 1
                          /\ TryReadByte(Cur, 1, ret.addr).val = <<1>>

\* C15: after kill(), whatever the state before and whatever calls follow,
\* is_dead() is true, is_mapped(a) is false for every a, and every try_read,
\* try_write (buffer, byte and typed scalar) and try_read_executable returns
\* false and modifies no memory.
C15_KilledSpaceRejectsAccess ==
  (ret.op = "Kill" \/ IsDead(Cur, 1)) =>
     /\ IsDead(Cur, 1)
     /\ \A a \in Addrs :
           /\ ~IsMapped(Cur, 1, a)
           /\ ~TryReadByte(Cur, 1, a).ok
           /\ ~TryRead(Cur, 1, a, 1).ok
           /\ ~TryReadScalar(Cur, 1, a, 1).ok
           /\ ~TryReadExecutable(Cur, 1, a).ok
           /\ \A w \in {TryWriteByte(Cur, 1, a, 1), TryWrite(Cur, 1, a, <<1>>),
                        TryWriteScalar(Cur, 1, a, <<1>>)} :
                 ~w.ok /\ w.W.heap = heap

\* C16: add_map and remove_map on a dead address space are rejected without
\* effect: the range sequence stays empty, is_mapped remains false for every
\* address, the permission sets are unchanged and the address space stays
\* dead.
C16_DeadSpaceRejectsMaps ==
  [][(/\ IsDead(Cur, 1)
      /\ ret'.op \in {"AddMap", "AddMapSnapshot", "RemoveMap", "crash"}) =>
        /\ ret'.op # "crash"
        /\ spaces'[1].maps = <<>>
        /\ \A a \in Addrs : ~IsMapped(Cur', 1, a)
        /\ spaces'[1].page_is_readable = spaces[1].page_is_readable
        /\ spaces'[1].page_is_writable = spaces[1].page_is_writable
        /\ spaces'[1].page_is_executable = spaces[1].page_is_executable
        /\ IsDead(Cur', 1)]_vars

\* Address a of address space s is seen as mapped or accessible by some
\* observer: is_mapped, can_read, can_write, can_execute, or a successful
\* try_read, try_write or try_read_executable of one byte.
SeenAt(W, s, a) ==
  \/ IsMapped(W, s, a)
  \/ CanRead(W.spaces[s], a)
  \/ CanWrite(W.spaces[s], a)
  \/ CanExecute(W.spaces[s], a)
  \/ TryReadByte(W, s, a).ok
  \/ TryRead(W, s, a, 1).ok
  \/ TryReadScalar(W, s, a, 1).ok
  \/ TryReadExecutable(W, s, a).ok
  \/ TryWriteByte(W, s, a, 1).ok
  \/ TryWrite(W, s, a, <<1>>).ok
  \/ TryWriteScalar(W, s, a, <<1>>).ok

\* The addresses of the page-aligned region of a call with (base, size).
RegionOf(base_, size) ==
  {a \in Addrs : /\ AlignDownToPage(base_) <= a
                 /\ a < AlignDownToPage(base_) + RoundUpToPage(size)}

\* C17: after remove_map(base, size) on a live address space, for every
\* address a of the page-aligned region is_mapped, can_read, can_write and
\* can_execute are false and try_read, try_write and try_read_executable
\* fail, right after the call and after a following call that is no add_map
\* covering a.
C17_RemovedRegionStaysTombstone ==
  [][/\ (ret'.op = "RemoveMap" /\ ~IsDead(Cur, 1)) =>
          \A a \in RegionOf(ret'.base, ret'.size) : ~SeenAt(Cur', 1, a)
     /\ (ret.op = "RemoveMap" /\ ~IsDead(Cur, 1)) =>
          \A a \in RegionOf(ret.base, ret.size) :
             \/ /\ ret'.op \in {"AddMap", "AddMapSnapshot"}
                /\ a \in RegionOf(ret'.base, ret'.size)
             \/ ~SeenAt(Cur', 1, a)]_vars

\* The addresses of the map that add_map(base, size) creates.
NewMapOf(base_, size) ==
  {a \in Addrs : RegionBase(base_) <= a /\ a < RegionLimit(base_, size)}

\* C18: after add_map(base, size) on a live address space every page of the
\* new map is mapped, readable and writable and not executable, whatever
\* permissions those pages had before.
C18_NewMapIsReadWriteNoExec ==
  (ret.op = "AddMap" /\ ~IsDead(Cur, 1)) =>
     \A a \in NewMapOf(ret.base, ret.size) :
        /\ InValidRange(heap, spaces, 1, a)
        /\ IsMapped(Cur, 1, a)
        /\ CanRead(spaces[1], a)
        /\ CanWrite(spaces[1], a)
        /\ ~CanExecute(spaces[1], a)

\* add_map has been called on a live address space over a page that was
\* executable, and the page is now readable, writable and not executable.
C18_Witness ==
  /\ ret.op = "AddMap"
  /\ ~IsDead(Cur, 1)
  /\ \E a \in NewMapOf(ret.base, ret.size) :
        /\ AlignDownToPage(a) \in ret.was_executable
        /\ IsMapped(Cur, 1, a)
        /\ CanRead(spaces[1], a)
        /\ CanWrite(spaces[1], a)
        /\ ~CanExecute(spaces[1], a)

\* C19: try_read_executable(pc) succeeds only if the page of pc belongs to a
\* valid range and is in the executable set, and it then yields the byte a
\* plain read of pc yields; it fails for every pc on a non-executable or
\* unmapped page.
C19_ExecutableReadNeedsExecPage ==
  \A pc \in Addrs :
     LET r == TryReadExecutable(Cur, 1, pc)
     IN /\ r.ok => /\ InValidRange(heap, spaces, 1, pc)
                   /\ CanExecute(spaces[1], pc)
                   /\ TryReadByte(Cur, 1, pc).ok
                   /\ r.val = TryReadByte(Cur, 1, pc).val
        /\ (~InValidRange(heap, spaces, 1, pc) \/ ~CanExecute(spaces[1], pc))
              => ~r.ok

\* try_read_executable has been called on an executable page of a valid
\* range and has returned the byte stored there.
C19_Witness ==
  /\ ret.op = "TryReadExecutable"
  /\ ret.ok
  /\ InValidRange(heap, spaces, 1, ret.addr)
  /\ CanExecute(spaces[1], ret.addr)
  /\ ret.val = TryReadByte(Cur, 1, ret.addr).val

\* The last call was a try_write, through one of the overloads.
WasWrite(r) == r.op \in {"TryWriteByte", "TryWrite", "TryWriteScalar"}

\* C20: with code versioning disabled, compute_code_version(pc) returns zero
\* for every pc in every state, and a successful write that touches an
\* executable page neither gives any range a new code version nor changes
\* the trace-head set.
C20_NoVersioningWhenDisabled ==
  /\ [](\A pc \in Addrs : ComputeCodeVersion(Cur, 1, pc).val = 0)
  /\ [][(/\ WasWrite(ret')
         /\ ret'.ok
         /\ \E P \in PagesOf(ret'.addr, ret'.size) :
               CanExecuteAligned(spaces[1], P)) =>
           /\ spaces'[1].trace_heads = spaces[1].trace_heads
           /\ next_token' = next_token
           /\ \A i \in DOMAIN heap' : RangeCodeVersion(heap'[i]) = 0]_vars

\* A write to an executable page has succeeded while trace heads were
\* marked; they are still marked and no range has a code version.
C20_Witness ==
  /\ WasWrite(ret)
  /\ ret.ok
  /\ \E P \in PagesOf(ret.addr, ret.size) : CanExecuteAligned(spaces[1], P)
  /\ spaces[1].trace_heads # {}
  /\ \A pc \in Addrs : ComputeCodeVersion(Cur, 1, pc).val = 0
  /\ \A i \in DOMAIN heap : RangeCodeVersion(heap[i]) = 0

\* C21: the typed read is observationally equivalent to the byte path: for
\* every address and reachable state, the typed try_read returns the same
\* success flag and value as the byte-wise try_read of as many bytes; when
\* the direct pointer access is not possible it falls back to the byte path
\* instead of failing.
C21_TypedReadAsBytePath ==
  \A a \in Addrs, n \in {1, 2} :
     a + n - 1 <= addr_mask =>
        LET typed == TryReadScalar(Cur, 1, a, n)
            bytes == TryRead(Cur, 1, a, n)
        IN /\ typed.ok = bytes.ok
           /\ typed.ok => typed.val = bytes.val

(***************************************************************************)
(* Properties of the trace decoder.                                        *)
(***************************************************************************)
\* The traces the last call of DecodeTraces has emitted.
EmittedTraces ==
  IF ret.op = "DecodeTraces" THEN SeqRange(ret.traces) ELSE {}

\* Whether the decoder has accepted the instruction that a trace holds at pc.
DecodedSuccessfully(insts, pc) == DecodeInstruction(pc, insts[pc].bytes).ok

\* The intra-trace successors of an instruction, by its category.
IntraTraceSuccessors(inst) ==
  CASE inst.category \in {"Normal", "NoOp"} -> {inst.next_pc}
    [] inst.category = "ConditionalBranch" ->
         {inst.branch_taken_pc, inst.next_pc}
    [] inst.category = "DirectJump" -> {inst.branch_taken_pc}
    [] inst.category \in {"DirectFunctionCall", "IndirectFunctionCall",
                          "ConditionalAsyncHyperCall"} ->
         {inst.branch_not_taken_pc}
    [] inst.category \in {"IndirectJump", "FunctionReturn", "AsyncHyperCall",
                          "Error", "Invalid"} -> {}

\* The least set that contains `pcs` and the successors of those of its
\* members that the instruction map holds as successfully decoded.
RECURSIVE SuccessorClosure(_, _)
SuccessorClosure(pcs, insts) ==
  LET more == UNION {IntraTraceSuccessors(insts[pc]) :
                       pc \in {p \in pcs \cap DOMAIN insts :
                                 DecodedSuccessfully(insts, p)}}
  IN IF more \subseteq pcs THEN pcs
     ELSE SuccessorClosure(pcs \cup more, insts)

\* The category of the instruction whose byte is executable at addr, or
\* "None" when no byte can be executed there.
CodeAt(W, s, addr) ==
  LET byte == TryReadExecutable(W, s, addr)
  IN IF byte.ok THEN DecodeInstruction(addr, byte.val).inst.category
     ELSE "None"

\* `nop; nop; ret` is the code at 0, and 0 was no trace head when
\* DecodeTraces was called for it.
DecodedNopNopRet ==
  /\ ret.op = "DecodeTraces"
  /\ ret.start_pc = 0
  /\ 0 \notin ret.was_trace_heads
  /\ <<CodeAt(Cur, 1, 0), CodeAt(Cur, 1, 1), CodeAt(Cur, 1, 2)>>
       = <<"NoOp", "NoOp", "FunctionReturn">>

\* C22: the keys of the instruction map of every emitted trace are the
\* least set that contains the entry PC of the trace and is closed under
\* the intra-trace successors of its successfully decoded instructions;
\* `nop; nop; ret` decodes into one trace of three instructions that is
\* entered at its first instruction.
C22_TraceIsSuccessorClosure ==
  /\ \A trace \in EmittedTraces :
        DOMAIN trace.instructions
          = SuccessorClosure({trace.pc}, trace.instructions)
  /\ DecodedNopNopRet =>
        /\ Len(ret.traces) = 1
        /\ ret.traces[1].pc = 0
        /\ DOMAIN ret.traces[1].instructions = {0, 1, 2}

C22_Witness ==
  /\ DecodedNopNopRet
  /\ Len(ret.traces) = 1
  /\ Cardinality(DOMAIN ret.traces[1].instructions) = 3

\* The successfully decoded direct calls of a trace whose callee is not
\* their return site.
DirectCallsOf(trace) ==
  {trace.instructions[pc] :
     pc \in {p \in DOMAIN trace.instructions :
               /\ DecodedSuccessfully(trace.instructions, p)
               /\ trace.instructions[p].category = "DirectFunctionCall"
               /\ trace.instructions[p].branch_taken_pc
                    # trace.instructions[p].branch_not_taken_pc}}

DecodedAgain == DecodeTraces(Cur, 1, ret.start_pc)

\* C24: DecodeTraces emits a trace only for a PC that was no trace head
\* when the call began; every entry PC of an emitted trace is a trace head
\* afterwards; the emitted traces have pairwise distinct entry PCs; and a
\* second DecodeTraces for the same start PC, with nothing in between that
\* clears the trace heads, emits no trace.
C24_TraceHeadDecodedOnce ==
  ret.op = "DecodeTraces" =>
     /\ \A i \in 1..Len(ret.traces) :
           /\ ret.traces[i].pc \notin ret.was_trace_heads
           /\ IsMarkedTraceHead(Cur, 1, ret.traces[i].pc)
           /\ \A j \in 1..Len(ret.traces) :
                 ret.traces[i].pc = ret.traces[j].pc => i = j
     /\ DecodedAgain.traces = <<>>

C24_Witness ==
  /\ ret.op = "DecodeTraces"
  /\ Len(ret.traces) = 2
  /\ ret.start_pc \notin ret.was_trace_heads
  /\ DecodedAgain.traces = <<>>

\* C25: every instruction in the instruction map of an emitted trace has
\* had its successors enqueued, whether or not decoding it succeeded: its
\* intra-trace successors are keys of the map too.
C25_SuccessorsRegardlessOfSuccess ==
  \A trace \in EmittedTraces : \A pc \in DOMAIN trace.instructions :
     IntraTraceSuccessors(trace.instructions[pc])
       \subseteq DOMAIN trace.instructions

\* The (PC, instruction bytes) map of a trace.
BytesOf(trace) ==
  [pc \in DOMAIN trace.instructions |-> trace.instructions[pc].bytes]

\* The bytes of a (PC, instruction bytes) map at the PCs `keys`, by
\* ascending PC.
RECURSIVE ConcatBytes(_, _)
ConcatBytes(bytes, keys) ==
  IF keys = {} THEN <<>>
  ELSE LET last == CHOOSE x \in keys : \A y \in keys : y <= x
       IN ConcatBytes(bytes, keys \ {last}) \o bytes[last]

\* The trace id as a function of the entry PC and the (PC, instruction
\* bytes) map alone: the entry PC and the hash of the bytes, seeded with
\* min_pc * max_pc * instruction count.
TraceIdOf(entry_pc, bytes) ==
  LET keys == DOMAIN bytes
      seed == IF keys = {} THEN 1
              ELSE (CHOOSE x \in keys : \A y \in keys : x <= y)
                     * (CHOOSE x \in keys : \A y \in keys : y <= x)
                     * Cardinality(keys)
  IN [hash1 |-> entry_pc,
      hash2 |-> Digest(Update(Hasher(seed), ConcatBytes(bytes, keys)))]

\* The traces DecodeTraces would emit for pc in a clone of the address
\* space whose code at pc was rewritten with the byte it holds: another
\* address space, with no trace heads and another code version.
DecodedInClone(pc, byte) ==
  UNION {SeqRange(DecodeTraces(TryWriteByte(W, 2, pc, byte).W, 2, pc).traces) :
           W \in CloneSpace(Cur, 1, 2)}

\* C26: the id of an emitted trace is the entry PC with the hash of the
\* (PC, instruction bytes) map, seeded with min_pc * max_pc * instruction
\* count modulo the width of the hash; a trace with the same entry PC and
\* the same bytes at the same PCs that is decoded in another address space
\* under another code version has the same id.
C26_TraceIdFromBytes ==
  \A trace \in EmittedTraces :
     /\ trace.id = TraceIdOf(trace.pc, BytesOf(trace))
     /\ trace.instructions[trace.pc].bytes # <<>> =>
           \A other \in DecodedInClone(trace.pc,
                                       trace.instructions[trace.pc].bytes[1]) :
              other.pc = trace.pc /\ BytesOf(other) = BytesOf(trace)
                 => other.id = trace.id

C26_Witness ==
  \E trace \in EmittedTraces :
     /\ Cardinality(DOMAIN trace.instructions) >= 3
     /\ trace.instructions[trace.pc].bytes # <<>>
     /\ \E other \in DecodedInClone(trace.pc,
                                    trace.instructions[trace.pc].bytes[1]) :
           /\ other.pc = trace.pc
           /\ BytesOf(other) = BytesOf(trace)
           /\ other.code_version # trace.code_version
           /\ other.id = trace.id

(***************************************************************************)
(* Properties of the executor and of the snapshot loader.                  *)
(***************************************************************************)
\* The places in the log of the executor where the intrinsic `fn` was
\* invoked.
Invocations(fn) ==
  {i \in 1..Len(executor.log) : executor.log[i].fn = fn}

\* C27: __vmill_init is invoked first and once; the invocations of
\* __vmill_create_task follow it, one for each initial task in the order
\* the tasks were added; __vmill_resume comes next and __vmill_fini is
\* the last invocation; find_lifted_function_for_task is invoked between
\* the two only.
C27_IntrinsicsInFixedOrder ==
  LET added == Len(executor.initial_tasks)
      last == Len(executor.log)
  IN /\ Invocations("__vmill_init") = {1} \cap (1..last)
     /\ Invocations("__vmill_create_task") = (2..(added + 1)) \cap (1..last)
     /\ \A i \in Invocations("__vmill_create_task") :
           /\ executor.log[i].pc = executor.initial_tasks[i - 1].pc
           /\ executor.log[i].memory = executor.initial_tasks[i - 1].memory
     /\ Invocations("__vmill_resume") = {added + 2} \cap (1..last)
     /\ Invocations("__vmill_fini") \subseteq {last} \ (1..(added + 2))
     /\ \A i \in Invocations("find_lifted_function_for_task") :
           /\ added + 2 < i
           /\ \A j \in Invocations("__vmill_fini") : i < j
     /\ executor.position = "finished" =>
           Invocations("__vmill_fini") = {last}

C27_Witness ==
  /\ executor.position = "finished"
  /\ Len(executor.initial_tasks) = 2
  /\ Cardinality(Invocations("__vmill_create_task")) = 2
  /\ Cardinality(Invocations("find_lifted_function_for_task")) = 2

\* The dispatches in the log of the executor.
Dispatches ==
  {executor.log[i] : i \in Invocations("find_lifted_function_for_task")}

\* The snapshot was loaded by the last call, without a failed CHECK.
SnapshotLoaded == ret.op = "LoadSnapshotIntoExecutor"

\* C28: the tasks of a loaded snapshot that name the same address-space id
\* have the same AddressSpace object as memory, and tasks that name
\* different ids have different objects; the dispatches of tasks with the
\* same object and the same PC compute the same (PC, code version) and
\* get the same function, which is the one the live traces hold for it.
C28_SharedAddressSpaceSharesTrace ==
  /\ SnapshotLoaded =>
        /\ Len(executor.initial_tasks) = Len(ret.snapshot.tasks)
        /\ \A i, j \in 1..Len(ret.snapshot.tasks) :
              /\ executor.initial_tasks[i].pc = ret.snapshot.tasks[i].pc
              /\ (ret.snapshot.tasks[i].address_space_id
                    = ret.snapshot.tasks[j].address_space_id)
                 <=> (executor.initial_tasks[i].memory
                        = executor.initial_tasks[j].memory)
  /\ \A a, b \in Dispatches :
        /\ executor.tasks[a.task].memory = executor.tasks[b.task].memory
        /\ executor.tasks[a.task].pc = executor.tasks[b.task].pc
        => /\ a.key = b.key
           /\ a.lifted = b.lifted
           /\ a.key \in DOMAIN executor.live_traces =>
                 a.lifted = executor.live_traces[a.key]

C28_Witness ==
  \E a, b \in Dispatches :
     /\ a.task # b.task
     /\ executor.tasks[a.task].memory = executor.tasks[b.task].memory
     /\ a.key = b.key
     /\ a.lifted = b.lifted
     /\ a.lifted # kErrorIntrinsic

\* The inconsistencies of the address spaces of a snapshot: an id that
\* occurs twice; a parent that is not deserialized before its child; a
\* page range that ends at or before its base; a page range with bytes
\* whose file is missing or shorter than the range.
DuplicateId(snapshot) ==
  \E i, j \in 1..Len(snapshot.address_spaces) :
     i < j /\ snapshot.address_spaces[i].id = snapshot.address_spaces[j].id
ParentNotDeserialized(snapshot) ==
  \E j \in 1..Len(snapshot.address_spaces) :
     /\ snapshot.address_spaces[j].has_parent_id
     /\ \A i \in 1..(j - 1) :
           snapshot.address_spaces[i].id
             # snapshot.address_spaces[j].parent_id
PagesOfSnapshot(snapshot) ==
  UNION {SeqRange(snapshot.address_spaces[i].page_ranges) :
           i \in 1..Len(snapshot.address_spaces)}
EmptyPageRange(snapshot) ==
  \E page \in PagesOfSnapshot(snapshot) : page.limit <= page.base
BadRangeFile(snapshot) ==
  \E page \in PagesOfSnapshot(snapshot) :
     /\ page.kind # "anonymous_zero"
     /\ ~page.file.exists \/ Len(page.file.bytes) < page.limit - page.base
\* The tasks of a snapshot that name an address space the snapshot does
\* not have.
UnknownTasks(snapshot) ==
  {i \in 1..Len(snapshot.tasks) :
     \A k \in 1..Len(snapshot.address_spaces) :
        snapshot.address_spaces[k].id # snapshot.tasks[i].address_space_id}

\* C29: loading a snapshot with one of these inconsistencies fails a
\* CHECK.  When the address spaces are inconsistent no task is added to
\* the executor; when a task names an unknown address space, neither it
\* nor a task after it is added.
C29_InconsistentSnapshotIsFatal ==
  ret.op \in {"LoadSnapshotIntoExecutor", "crash"} =>
     LET snapshot == ret.snapshot
         bad_spaces == \/ DuplicateId(snapshot)
                       \/ ParentNotDeserialized(snapshot)
                       \/ EmptyPageRange(snapshot)
                       \/ BadRangeFile(snapshot)
     IN /\ bad_spaces => Crashed /\ executor.initial_tasks = <<>>
        /\ UnknownTasks(snapshot) # {} =>
              /\ Crashed
              /\ \A i \in UnknownTasks(snapshot) :
                    Len(executor.initial_tasks) < i

C29_Witness ==
  /\ Crashed
  /\ UnknownTasks(ret.snapshot) = {2}
  /\ Len(executor.initial_tasks) = 1
  /\ ~DuplicateId(ret.snapshot)

\* The pages of address space s that lie in a valid range and satisfy
\* `permitted`.
IndexedPages(s, permitted(_)) ==
  {p \in PageAddrs : InValidRange(heap, spaces, s, p) /\ permitted(p)}

\* Every page of the index maps to a valid range that contains it.
MapsToContainingRange(index) ==
  \A p \in DOMAIN index :
     index[p] # kNull /\ IsValid(heap[index[p]]) /\ Contains(heap[index[p]], p)

\* C30: the page -> range index holds exactly the pages of valid ranges
\* with a read, write or execute permission, each mapped to a range that
\* contains it; the writable-non-executable index holds exactly the pages
\* of valid ranges that are writable and not executable; and the second
\* index is always a sub-map of the first.
C30_IndicesMatchRangesAndPermissions ==
  \A s \in Spaces :
     Live(s) =>
        LET sp == spaces[s]
            any(p) == \/ CanReadAligned(sp, p)
                      \/ CanWriteAligned(sp, p)
                      \/ CanExecuteAligned(sp, p)
            wnx(p) == CanWriteAligned(sp, p) /\ ~CanExecuteAligned(sp, p)
        IN /\ DOMAIN sp.page_to_map = IndexedPages(s, any)
           /\ MapsToContainingRange(sp.page_to_map)
           /\ DOMAIN sp.wnx_page_to_map = IndexedPages(s, wnx)
           /\ MapsToContainingRange(sp.wnx_page_to_map)
           /\ \A p \in DOMAIN sp.wnx_page_to_map :
                 /\ p \in DOMAIN sp.page_to_map
                 /\ sp.wnx_page_to_map[p] = sp.page_to_map[p]

(***************************************************************************)
(* Properties of reads after writes, of failed writes and of the trace     *)
(* heads.                                                                  *)
(***************************************************************************)
\* What the try_write overloads that take the bytes val return at addr in
\* address space s of world W.
WritesOf(W, s, addr, val) ==
  {TryWrite(W, s, addr, val), TryWriteScalar(W, s, addr, val)}
    \cup (IF Len(val) = 1 THEN {TryWriteByte(W, s, addr, val[1])} ELSE {})

\* What the try_read overloads that read n bytes return at addr.
ReadsOf(W, s, addr, n) ==
  LET results == {TryRead(W, s, addr, n), TryReadScalar(W, s, addr, n)}
                   \cup (IF n = 1 THEN {TryReadByte(W, s, addr)} ELSE {})
  IN {[ok |-> r.ok, val |-> r.val] : r \in results}

\* Every page of the n bytes at addr is in the readable set.
PagesReadable(W, s, addr, n) ==
  \A P \in PagesOf(addr, n) : CanReadAligned(W.spaces[s], P)

\* C31: after a successful try_write of a value v at address a (any
\* overload), a try_read of as many bytes at a (any overload) succeeds
\* whenever the pages are readable and returns v.
C31_WriteReadRoundTrip ==
  \A a \in Addrs, val \in {<<1>>, <<1, 2>>} :
     a + Len(val) - 1 <= addr_mask =>
        \A w \in WritesOf(Cur, 1, a, val) :
           (w.ok /\ PagesReadable(w.W, 1, a, Len(val))) =>
              ReadsOf(w.W, 1, a, Len(val)) = {[ok |-> TRUE, val |-> val]}

\* What a caller can see of the memory of address space s: the bytes and the
\* code versions of its ranges, and its trace heads.
MemoryOf(W, s) ==
  [ranges |-> [i \in 1..Len(W.spaces[s].maps) |->
                 LET range == W.heap[W.spaces[s].maps[i]]
                 IN [data |-> range.data,
                     version |-> RangeCodeVersion(range)]],
   trace_heads |-> W.spaces[s].trace_heads]

\* C32: a try_write that returns false leaves the address space unchanged:
\* no byte of memory is modified, no range's code version is invalidated and
\* the trace-head set is not cleared.
C32_FailedWriteChangesNothing ==
  \A a \in Addrs, val \in {<<1>>, <<1, 2>>} :
     a + Len(val) - 1 <= addr_mask =>
        \A w \in WritesOf(Cur, 1, a, val) :
           ~w.ok => MemoryOf(w.W, 1) = MemoryOf(Cur, 1)

\* The step was a try_write that touched a page that was executable, while
\* code versioning was on.
WroteToCode ==
  /\ WasWrite(ret')
  /\ version_code
  /\ \E P \in PagesOf(ret'.addr, ret'.size) : CanExecuteAligned(spaces[1], P)

\* C33: the trace-head set changes only by mark_trace_head, which adds one
\* PC, and by a write to an executable page with code versioning enabled,
\* which clears it: add_map, remove_map, set_permissions, kill, reads and
\* writes to non-executable pages leave it unchanged.
C33_TraceHeadsChangeOnlyByMarkAndWrite ==
  [][spaces'[1].trace_heads # spaces[1].trace_heads =>
        \/ /\ ret'.op = "MarkAsTraceHead"
           /\ spaces'[1].trace_heads = spaces[1].trace_heads \cup {ret'.pc}
        \/ /\ WroteToCode
           /\ spaces'[1].trace_heads = {}]_vars

\* remove_map has unmapped the range of a PC that was marked as a trace head
\* before, and the PC is a trace head still.
C33_Witness ==
  /\ ret.op = "RemoveMap"
  /\ ~IsDead(Cur, 1)
  /\ \E pc \in spaces[1].trace_heads :
        /\ pc \in RegionOf(ret.base, ret.size)
        /\ ~IsMapped(Cur, 1, pc)
        /\ IsMarkedTraceHead(Cur, 1, pc)

\* C34: every trace emitted by DecodeTraces contains an instruction at its
\* own entry PC, also when the bytes at the entry PC cannot be read or
\* decoded; a start PC that was no trace head when DecodeTraces was called
\* is the entry PC of an emitted trace.
C34_TraceHoldsItsEntry ==
  /\ \A trace \in EmittedTraces : trace.pc \in DOMAIN trace.instructions
  /\ (ret.op = "DecodeTraces" /\ ret.start_pc \notin ret.was_trace_heads) =>
        \E trace \in EmittedTraces : trace.pc = ret.start_pc

\* DecodeTraces was called for a PC none of whose bytes can be read as
\* executable, and has emitted a trace whose only instruction is the one at
\* that PC, without bytes.
C34_Witness ==
  /\ ret.op = "DecodeTraces"
  /\ ~TryReadExecutable(Cur, 1, ret.start_pc).ok
  /\ \E trace \in EmittedTraces :
        /\ trace.pc = ret.start_pc
        /\ DOMAIN trace.instructions = {trace.pc}
        /\ trace.instructions[trace.pc].bytes = <<>>
        /\ ~DecodedSuccessfully(trace.instructions, trace.pc)

\* No element occurs twice in the sequence.
NoDuplicates(seq) ==
  \A i, j \in 1..Len(seq) : seq[i] = seq[j] => i = j

\* C35: DecodeTraces terminates for every start PC: each PC is decoded at
\* most once per trace, each PC starts at most one trace per call, the
\* inner work list is empty each time a new trace starts, both work lists
\* are empty on return, and every call returns.
C35_DecodeTracesTerminates ==
  /\ [](/\ NoDuplicates(decoder.decoded)
        /\ NoDuplicates(decoder.started)
        /\ ~decoder.check_failed
        /\ decoder.position = "returned" =>
              decoder.trace_list = {} /\ decoder.work_list = {})
  /\ (decoder.position = "trace_list") ~> (decoder.position = "returned")

\* DecodeTraces has returned from code in which the function at 0 calls
\* the function at kPageSize and that one calls the function at 0: there
\* is one trace for each.
C35_Witness ==
  /\ decoder.position = "returned"
  /\ decoder.start_pc = 0
  /\ Len(decoder.traces) = 2
  /\ \E call \in DirectCallsOf(decoder.traces[1]) :
        call.pc = 0 /\ call.branch_taken_pc = kPageSize
  /\ \E call \in DirectCallsOf(decoder.traces[2]) :
        call.pc = kPageSize /\ call.branch_taken_pc = 0

(***************************************************************************)
(* SpecLoad: the page ranges of a consistent snapshot are loaded into a    *)
(* new address space; bytes are read back and the address space is cloned. *)
(***************************************************************************)
MaxLoadCalls == 2

\* The kinds of page ranges the loader tells apart.
LoadKinds == {"anonymous", "heap", "anonymous_zero"}
\* The files of a page range of `size` bytes: one of just that size and a
\* longer one, with different bytes.
LoadFiles(size) ==
  {[exists |-> TRUE, bytes |-> [i \in 1..size |-> i]],
   [exists |-> TRUE, bytes |-> [i \in 1..(size + 1) |-> 9 - i]]}
\* The page ranges of a snapshot: page-aligned, not empty, with any
\* permission flags; every range but a zero range has its file.
LoadRanges ==
  UNION {UNION {
    {[base |-> base, limit |-> limit, kind |-> kind, can_read |-> r,
      can_write |-> w, can_exec |-> x, file |-> file] :
       kind \in LoadKinds \ {"anonymous_zero"}, r \in BOOLEAN,
       w \in BOOLEAN, x \in BOOLEAN, file \in LoadFiles(limit - base)}
    \cup
    {[base |-> base, limit |-> limit, kind |-> "anonymous_zero",
      can_read |-> r, can_write |-> w, can_exec |-> x,
      file |-> [exists |-> FALSE, bytes |-> <<>>]] :
       r \in BOOLEAN, w \in BOOLEAN, x \in BOOLEAN} :
      limit \in {base + kPageSize, base + 2 * kPageSize}} :
    base \in {0, kPageSize}}
\* The lists of page ranges of an address space: one range, or two that do
\* not overlap.
LoadRangeLists ==
  {<<p>> : p \in LoadRanges}
    \cup {pq \in {<<p, q>> : p \in LoadRanges, q \in LoadRanges} :
            pq[2].limit <= pq[1].base \/ pq[1].limit <= pq[2].base}

LoadLoadPageRanges ==
  /\ calls = 0
  /\ \E pages \in LoadRangeLists :
     \E r \in LoadPageRanges(Cur, 1, pages, 1) :
        Commit(r.W, [op |-> IF r.crashed THEN "crash" ELSE "LoadPageRanges",
                     pages |-> pages])
LoadTryReadByte ==
  /\ ~Crashed
  /\ 0 < calls /\ calls < MaxLoadCalls
  /\ \E a \in Addrs :
        LET r == TryReadByte(Cur, 1, a)
        IN Commit(r.W, [op |-> "TryReadByte", addr |-> a, ok |-> r.ok,
                        val |-> r.val])
\* The loaded address space is cloned.
LoadClone ==
  /\ ~Crashed
  /\ 0 < calls /\ calls < MaxLoadCalls
  /\ ~Live(2)
  /\ \E W \in CloneSpace(Cur, 1, 2) :
        Commit(W, [op |-> "Clone", parent |-> 1, child |-> 2])

NextLoad == LoadLoadPageRanges \/ LoadTryReadByte \/ LoadClone

SpecLoad == InitSMC /\ [][NextLoad]_vars

(***************************************************************************)
(* SpecTask: the runtime sets tasks up with __vmill_init_task and tears    *)
(* them down with __vmill_fini_task.                                       *)
(***************************************************************************)
Tasks == 1..NumTasks
ObjectIds == 1..MaxObjects
\* The register states a task is set up from, and the PCs it starts at.
RegisterStates == {10, 11}
TaskPCs == {0, kPageSize}

\* __vmill_allocate_coroutine: the runtimes it may leave, with the address
\* of the new coroutine, which is none of the allocated ones.
AllocateCoroutine(R) ==
  {[R |-> [R EXCEPT !.coroutines = @ \cup {id}], id |-> id] :
     id \in ObjectIds \ R.coroutines}

\* __vmill_free_coroutine(id).
FreeCoroutine(R, id) ==
  [R EXCEPT !.coroutines = @ \ {id},
            !.freed = Append(@, [kind |-> "coroutine", id |-> id])]

\* new State: the runtimes it may leave, with the address of the new
\* object, which is none of the allocated ones.
NewState(R) ==
  {[R |-> [R EXCEPT !.states = [i \in (DOMAIN @) \cup {id} |->
                                  IF i = id THEN 0 ELSE @[i]]],
    id |-> id] : id \in ObjectIds \ DOMAIN R.states}

\* A delete that leaves the State object allocated.
LeakState(R, id) == R

\* delete of the State object at address id.
DeleteState(R, id) ==
  [R EXCEPT !.states = [i \in (DOMAIN @) \ {id} |-> @[i]],
            !.freed = Append(@, [kind |-> "state", id |-> id])]

\* __vmill_get_rounding_mode(state), for the register state `state`.
GetRoundingMode(state) == state % 2

\* __vmill_init_task(task, state, pc, memory): the runtimes it may leave.
\* `state` is the register state the caller passes, by value, and
\* program_break is what __vmill_initial_heap_end returns.
InitTask(R, task, state, pc, memory) ==
  UNION {{[c.R EXCEPT
             !.states[n.id] = state,
             !.tasks[task] =
               [@ EXCEPT !.state = n.id,
                         !.pc = pc,
                         !.status = "runnable",
                         !.status_on_resume = "runnable",
                         !.location = "not_yet_started",
                         !.memory = memory,
                         !.async_routine = c.id,
                         !.fpu_rounding_mode = GetRoundingMode(state),
                         !.program_break = brk]] :
            c \in AllocateCoroutine(n.R), brk \in {0, kPageSize}} :
         n \in NewState(R)}

\* __vmill_fini_task(task).
FiniTask(R, task) ==
  LET freed == FreeCoroutine(R, R.tasks[task].async_routine)
      deleted == DeleteState(
                   [freed EXCEPT !.tasks[task].async_routine = kNull],
                   R.tasks[task].state)
  IN [deleted EXCEPT !.tasks[task].state = kNull]

\* A step of the runtime that leaves the runtime R and returns r.
RuntimeStep(R, r) ==
  /\ runtime' = R
  /\ ret' = r
  /\ calls' = calls + 1
  /\ UNCHANGED <<heap, spaces, next_token, version_code, executor, decoder>>

\* A task is set up when it is created, and again after it was torn down.
TaskInitTask ==
  /\ calls < MaxTaskCalls
  /\ \E task \in Tasks, state \in RegisterStates, pc \in TaskPCs,
        memory \in Spaces :
        /\ runtime.tasks[task].position # "initialized"
        /\ \E R \in InitTask(runtime, task, state, pc, memory) :
              RuntimeStep([R EXCEPT !.tasks[task].position = "initialized"],
                          [op |-> "__vmill_init_task", task |-> task,
                           state |-> state, pc |-> pc, memory |-> memory,
                           was |-> runtime])
\* A task that was set up is torn down, once.
TaskFiniTask ==
  /\ calls < MaxTaskCalls
  /\ \E task \in Tasks :
        /\ runtime.tasks[task].position = "initialized"
        /\ RuntimeStep([FiniTask(runtime, task) EXCEPT
                          !.tasks[task].position = "finished"],
                       [op |-> "__vmill_fini_task", task |-> task,
                        was |-> runtime])

NextTask == TaskInitTask \/ TaskFiniTask

SpecTask == InitSMC /\ [][NextTask]_vars

(***************************************************************************)
(* Properties of snapshot loading, of clones, of tasks and of the lookup   *)
(* caches.                                                                 *)
(***************************************************************************)
\* The valid ranges of address space s that hold the address.
MapsHolding(W, s, addr) ==
  {W.spaces[s].maps[i] : i \in 1..Len(W.spaces[s].maps)}
    \cap {id \in DOMAIN W.heap : CanAccess(W.heap[id], addr)}

\* Whether the bytes of [base, limit) are the bytes val[1], val[2], ...
HoldsBytes(W, s, base, limit, val) ==
  \A a \in base..(limit - 1) :
     \E id \in MapsHolding(W, s, a) : W.heap[id].data[a] = val[a - base + 1]

\* Whether the page range was loaded: a range with a file holds the first
\* limit - base bytes of the file, a zero range is mapped and holds zeros.
Loaded(W, s, page) ==
  HoldsBytes(W, s, page.base, page.limit,
             IF page.kind = "anonymous_zero"
             THEN [i \in 1..(page.limit - page.base) |-> 0]
             ELSE page.file.bytes)

\* C36: after a consistent snapshot is loaded, the bytes of every page
\* range that is not a zero range are the first limit - base bytes of its
\* file, whatever its permission flags are, and every zero range is mapped
\* although it has no file.
C36_LoadedBytesAreTheFile ==
  ret.op \in {"LoadPageRanges", "crash"} /\ "pages" \in DOMAIN ret =>
    /\ ~Crashed
    /\ \A i \in 1..Len(ret.pages) : Loaded(Cur, 1, ret.pages[i])

\* AddressSpace::InitialProgramBreak: the values the call may return.  The
\* member is read as it is; where no constructor and no AddMap has assigned
\* it, any value may be read.
InitialProgramBreak(W, s) ==
  IF W.spaces[s].initial_program_break = kNoBreak THEN 0..AddrSpaceSize
  ELSE {W.spaces[s].initial_program_break}

\* Whether address space c has the permission sets, trace heads and death
\* flag of address space s.
SameFlags(W, s, c) ==
  /\ W.spaces[c].page_is_readable = W.spaces[s].page_is_readable
  /\ W.spaces[c].page_is_writable = W.spaces[s].page_is_writable
  /\ W.spaces[c].page_is_executable = W.spaces[s].page_is_executable
  /\ W.spaces[c].trace_heads = W.spaces[s].trace_heads
  /\ W.spaces[c].is_dead = W.spaces[s].is_dead

\* C37: a cloned address space starts with the permission sets, the trace
\* heads and the death flag of its parent, and InitialProgramBreak() of the
\* child returns what it returns for the parent at clone time.
C37_CloneStartsAsParent ==
  ret.op = "Clone" =>
    /\ SameFlags(Cur, ret.parent, ret.child)
    /\ \A brk \in InitialProgramBreak(Cur, ret.child) :
          InitialProgramBreak(Cur, ret.parent) = {brk}

\* Whether no task but `task` holds the State object or the coroutine of
\* `task`.
OwnsItsObjects(R, task) ==
  \A other \in Tasks \ {task} :
     /\ R.tasks[other].state # R.tasks[task].state
     /\ R.tasks[other].async_routine # R.tasks[task].async_routine

\* Whether __vmill_init_task has set the task up from (state, pc, memory),
\* the runtime having been `was`.
SetUp(R, was, task, state, pc, memory) ==
  /\ R.tasks[task].status = "runnable"
  /\ R.tasks[task].status_on_resume = "runnable"
  /\ R.tasks[task].location = "not_yet_started"
  /\ R.tasks[task].pc = pc
  /\ R.tasks[task].memory = memory
  /\ R.tasks[task].state \in (DOMAIN R.states) \ DOMAIN was.states
  /\ R.states[R.tasks[task].state] = state
  /\ DOMAIN R.states = (DOMAIN was.states) \cup {R.tasks[task].state}
  /\ R.tasks[task].async_routine \in R.coroutines \ was.coroutines
  /\ R.coroutines = was.coroutines \cup {R.tasks[task].async_routine}
  /\ OwnsItsObjects(R, task)
  /\ R.freed = was.freed
  /\ \A other \in Tasks \ {task} :
        /\ R.tasks[other] = was.tasks[other]
        /\ was.tasks[other].state \in DOMAIN was.states =>
             R.states[was.tasks[other].state]
               = was.states[was.tasks[other].state]

\* Whether __vmill_fini_task has torn the task down, the runtime having
\* been `was`.
TornDown(R, was, task) ==
  /\ R.tasks[task].state = kNull
  /\ R.tasks[task].async_routine = kNull
  /\ R.tasks[task].pc = was.tasks[task].pc
  /\ R.tasks[task].memory = was.tasks[task].memory
  /\ R.tasks[task].status = was.tasks[task].status
  /\ was.tasks[task].async_routine \in was.coroutines
  /\ R.coroutines = was.coroutines \ {was.tasks[task].async_routine}
  /\ was.tasks[task].state \in DOMAIN was.states
  /\ DOMAIN R.states = (DOMAIN was.states) \ {was.tasks[task].state}
  /\ R.freed = was.freed \o
                 <<[kind |-> "coroutine",
                    id |-> was.tasks[task].async_routine],
                   [kind |-> "state", id |-> was.tasks[task].state]>>
  /\ \A other \in Tasks \ {task} : R.tasks[other] = was.tasks[other]

\* C38: __vmill_init_task leaves the task runnable and not yet started,
\* with the given pc and address space, a copy of the register state in a
\* State object of its own and one newly allocated coroutine;
\* __vmill_fini_task frees that coroutine and that State object, once, and
\* nulls both pointers, and leaves pc, memory and status alone.  The
\* allocated coroutines and State objects are always those of the tasks
\* that are set up: none leaks and none is freed by anything else.
C38_TaskLifecycle ==
  /\ ret.op = "__vmill_init_task" =>
       SetUp(runtime, ret.was, ret.task, ret.state, ret.pc, ret.memory)
  /\ ret.op = "__vmill_fini_task" => TornDown(runtime, ret.was, ret.task)
  /\ runtime.coroutines
       = {runtime.tasks[t].async_routine :
            t \in {t \in Tasks : runtime.tasks[t].position = "initialized"}}
  /\ DOMAIN runtime.states
       = {runtime.tasks[t].state :
            t \in {t \in Tasks : runtime.tasks[t].position = "initialized"}}
  /\ \A t \in Tasks :
        runtime.tasks[t].position = "initialized" => OwnsItsObjects(runtime, t)
\* A task is torn down while another task, set up from the same register
\* state, stays set up.
C38_Witness ==
  /\ ret.op = "__vmill_fini_task"
  /\ \E other \in Tasks \ {ret.task} :
        /\ runtime.tasks[other].position = "initialized"
        /\ runtime.states[runtime.tasks[other].state]
             = ret.was.states[ret.was.tasks[ret.task].state]

\* The range a page -> range index holds for the page, or the invalid
\* sentinel.
IndexLookup(index, page_addr) ==
  IF page_addr \in DOMAIN index THEN index[page_addr] ELSE kInvalid

\* C39: the lookup caches are transparent: in every state, for every page,
\* FindRangeAligned returns the range the page -> range index holds for the
\* page, and FindWNXRangeAligned the range the writable-non-executable
\* index holds for it, the invalid sentinel where the index holds none.
C39_CachesAreTransparent ==
  \A s \in Spaces : \A p \in PageAddrs :
     Live(s) =>
       /\ FindRangeAligned(Cur, s, p).id
            = IndexLookup(spaces[s].page_to_map, p)
       /\ FindWNXRangeAligned(Cur, s, p).id
            = IndexLookup(spaces[s].wnx_page_to_map, p)
====
